---- MODULE Spec2Model ----
(***************************************************************************)
(* Model of src/stocks.py (class StockAnalyzer).                           *)
(*                                                                         *)
(* Three specifications share the module:                                  *)
(*   Spec      - fetch_all_data: the four sequential categories, the three *)
(*               pooled tasks and the workbook they write to;              *)
(*   SpecStmt  - one statement scraper (_scrape_income_statement,          *)
(*               _scrape_balance_sheet, _scrape_cash_flow) with its three  *)
(*               tiers and the tables they build;                          *)
(*   SpecPeers - fetch_peers_esg: the peer source tiers, the filter and    *)
(*               the insertion of the subject ticker.                      *)
(*                                                                         *)
(* Representation.  A table is a sequence of rows; a row is a record       *)
(* [label, cells], so len(row) = 1 + Len(cells).  A formatted date string  *)
(* "dd-mm-yyyy" is the triple <<dd, mm, yyyy>>; a header text that is not  *)
(* a date is <<0, 0, k>> ("Unknown Date" is k = 0).  Python's None and the *)
(* empty list are both the empty sequence (the code only tests            *)
(* truthiness).  Timestamps are read in UTC.                               *)
(***************************************************************************)
EXTENDS Integers, Sequences, FiniteSets, TLC

VARIABLES
    \* ---- fetch_all_data (Spec) ----
    pc,          \* position of fetch_all_data
    writer,      \* self.writer: "none", "open", "closed"
    sheets,      \* the worksheets of the workbook, in creation order
    content,     \* what each worksheet holds: "data", "error", "error_over_data"
    submitted,   \* how many of the three tasks were handed to the executor
    tstate,      \* each pooled task: "unsubmitted", "queued", "running", "done", "raised"
    top,         \* each pooled task: index of the category operation it is in
    tphase,      \* each pooled task: "acquire", "acquired", "failed", "writing"
    awaited,     \* the futures fetch_all_data has awaited
    ret,         \* what fetch_all_data returned: "none" (not yet), "filename", "None"
    abortCause,  \* why it returned None
    escaped,     \* the category operations that raised into fetch_all_data
    nfail,       \* how many category operations failed so far in this run
    fileLocked,  \* the output file existed and could not be opened for appending
    \* ---- statement scraper (SpecStmt) ----
    stmt,        \* which scraper runs: "income", "balance", "cash"
    libHas,      \* the library accessor holds a non-empty frame for stmt
    sPhase,      \* position inside the scraper
    response,    \* the page response: [raised, status_code]
    attempted,   \* tiers attempted so far, in order
    results,     \* what each attempted tier returned (<<>> is None)
    table_data,  \* income_data / balance_data / cash_flow_data
    tier,        \* the tier whose result table_data holds
    history,     \* the provider periods the JSON tier built table_data from
    outcome,     \* "pending", "data", "error"
    written,     \* the table written to the statement's sheet
    \* ---- fetch_peers_esg (SpecPeers) ----
    subject,     \* self.ticker_symbol
    pPhase,      \* position inside fetch_peers_esg
    peer_data,   \* the list of peer entries
    peerSource,  \* the tiers that appended entries: subset of {"anchors", "script", "library"}
    candidates,  \* the tickers the sources offered (anchors, script peers, recommendations)
    subjectInserted, \* the subject's entry was put in front (line 2897 ran)
    peersBand,   \* the rows written under "Peers"
    relatedBand, \* the rows written under "Related Tickers"
    \* ---- fetch_esg_data (SpecEsg) ----
    ePhase,      \* position inside fetch_esg_data
    esg_series,  \* the historical series: rows [timestamp, esgScore], <<>> is None or empty
    esg_components,  \* key -> <<>> (None) or <<value>>
    eYield,      \* what the sources yielded so far: subset of {"series", "total"}
    esgSheet,    \* what the 'ESG Scores' sheet holds
    \* ---- fetch_company_summary (SpecSummary) ----
    mPhase,      \* position inside fetch_company_summary
    info,        \* the info dictionary: key -> <<>> (absent or None) or <<entry>>
    scraped_data,  \* self._scraped_data, same shape
    right_col,   \* the metric cells of the sheet, by label
    profile,     \* the profile cells of the sheet, by label
    \* ---- fetch_historical_data (SpecHist) ----
    hPhase,      \* position inside fetch_historical_data
    hist_data,   \* the price history: its columns and its index (epoch seconds)
    histSheet,   \* the 'Historical Data' sheet: columns and rows [date, instant]
    \* ---- fetch_statistics (SpecStats) ----
    stPhase,     \* position inside fetch_statistics
    statInfo,    \* self.ticker.info: key -> "absent", <<>> (None) or <<value>>
    statScraped, \* the scraped statistics: key -> "absent" or <<value>>
    formatted_data,  \* the displayed value of each key
    \* ---- the magnitude formatters (SpecMagnitude) ----
    magnitude,   \* the number handed to the formatters
    suffixes     \* the unit suffix each formatter gave it ("unset" before it ran)

stmtVars == <<stmt, libHas, sPhase, response, attempted, results, table_data,
              tier, history, outcome, written>>

peerVars == <<subject, pPhase, peer_data, peerSource, candidates, subjectInserted,
              peersBand, relatedBand>>

esgVars == <<ePhase, esg_series, esg_components, eYield, esgSheet>>

sumVars == <<mPhase, info, scraped_data, right_col, profile>>

histVars == <<hPhase, hist_data, histSheet>>

statVars == <<stPhase, statInfo, statScraped, formatted_data>>

fmtVars == <<magnitude, suffixes>>

auxVars == <<histVars, statVars, fmtVars>>

mainVars == <<pc, writer, sheets, content, submitted, tstate, top, tphase,
              awaited, ret, abortCause, escaped, nfail, fileLocked>>

vars == <<mainVars, stmtVars, peerVars, esgVars, sumVars, auxVars>>

----------------------------------------------------------------------------
\* Bounds
MaxPeriods == 2      \* periods per JSON history, chart items, library dates, HTML header dates
MaxRows == 2         \* body rows of an HTML table
MaxFailures == 2     \* category operations that fail in one run of fetch_all_data
MaxOffered == 2      \* anchors in the peers section, peers in a script fragment, recommended symbols
MaxPoints == 2       \* points of a historical ESG series
MaxListed == 12      \* companies in a long peers section or recommendation list
MaxDays == 3         \* rows of a price history

----------------------------------------------------------------------------
\* Generic helpers

\* ThreadPoolExecutor(max_workers=3)
Workers == 3

Tasks == {"financials", "sustainability", "peers"}

\* the four calls with the first two exchanged
SequentialEsgFirst == <<"ESG Scores", "Historical Data", "Company Summary", "Statistics">>

\* the categories fetch_all_data runs itself, in its order
Sequential == <<"Historical Data", "ESG Scores", "Company Summary", "Statistics">>

\* the category operations of each pooled task, in the order the task runs
\* them (fetch_financials runs the three scrapers)
Program ==
    [t \in Tasks |->
        IF t = "financials" THEN <<"Income Statement", "Balance Sheet", "Cash Flow">>
        ELSE IF t = "sustainability" THEN <<"Sustainability">>
        ELSE <<"Peers">>]

\* a tasks list in which fetch_peers_esg is never submitted
SubmitOrderWithoutPeers == <<"financials", "sustainability">>

\* the order of the executor.submit calls
SubmitOrder == <<"financials", "sustainability", "peers">>

AllSheets ==
    {Sequential[i] : i \in 1..4}
    \cup UNION {{Program[t][i] : i \in 1..Len(Program[t])} : t \in Tasks}
    \cup {"Financials"}

SeqsUpTo(S, n) == UNION {[1..k -> S] : k \in 0..n}

Range(s) == {s[i] : i \in 1..Len(s)}

\* Python's sorted(xs, key=..., reverse=True) as the permutation it applies:
\* keys is the sequence of the elements' keys, the result lists the indices
\* of the elements in sorted order.  The sort is stable: of two elements
\* with equal keys the one that came first stays first.
RECURSIVE InsertDesc(_, _, _)
InsertDesc(i, perm, keys) ==
    IF perm = <<>> THEN <<i>>
    ELSE IF keys[i] > keys[perm[1]] THEN <<i>> \o perm
         ELSE <<perm[1]>> \o InsertDesc(i, Tail(perm), keys)

RECURSIVE SortPermDesc(_, _)
SortPermDesc(n, keys) ==
    IF n = 0 THEN <<>>
    ELSE InsertDesc(n, SortPermDesc(n - 1, keys), keys)

SortedDesc(xs, keys) ==
    LET perm == SortPermDesc(Len(xs), keys)
    IN  [i \in 1..Len(xs) |-> xs[perm[i]]]

----------------------------------------------------------------------------
\* The parts of the state a specification does not use stay at these values.

MainIdle ==
    /\ pc = "idle"
    /\ writer = "none"
    /\ sheets = <<>>
    /\ content = [n \in AllSheets |-> "absent"]
    /\ submitted = 0
    /\ tstate = [t \in Tasks |-> "unsubmitted"]
    /\ top = [t \in Tasks |-> 1]
    /\ tphase = [t \in Tasks |-> "acquire"]
    /\ awaited = {}
    /\ ret = "none"
    /\ abortCause = "none"
    /\ escaped = {}
    /\ nfail = 0
    /\ fileLocked = FALSE

PeersIdle ==
    /\ subject = <<>>
    /\ pPhase = "idle"
    /\ peer_data = <<>>
    /\ peerSource = {}
    /\ candidates = {}
    /\ subjectInserted = FALSE
    /\ peersBand = <<>>
    /\ relatedBand = <<>>

\* the statistic keys the model follows
StatKeys == {"marketCap", "dividendYield", "payoutRatio", "trailingPE"}

\* the three magnitude formatters
Formatters == {"statistics", "library", "summary"}

HistIdle ==
    /\ hPhase = "idle"
    /\ hist_data = [columns |-> {}, index |-> <<>>]
    /\ histSheet = [kind |-> "none", columns |-> {}, rows |-> <<>>]

\* an entry of a statistics dict: the key is absent, holds None, or holds a
\* number (in hundredths)
AbsentStat == [kind |-> "absent", value |-> 0]

NullStat == [kind |-> "null", value |-> 0]

NumStat(v) == [kind |-> "num", value |-> v]

\* a row of formatted_data not yet appended
UnsetStat == [form |-> "unset", shown |-> 0, raw |-> 0, origin |-> "none"]

StatsIdle ==
    /\ stPhase = "idle"
    /\ statInfo = [k \in StatKeys |-> AbsentStat]
    /\ statScraped = [k \in StatKeys |-> AbsentStat]
    /\ formatted_data = [k \in StatKeys |-> UnsetStat]

MagnitudeIdle ==
    /\ magnitude = 0
    /\ suffixes = [f \in Formatters |-> "unset"]

AuxIdle == HistIdle /\ StatsIdle /\ MagnitudeIdle

\* the keys of esg_components
EsgKeys == {"totalEsg", "environment", "social", "governance", "controversyLevel"}

\* esg_components as initialised: every key None
NoComponents == [k \in EsgKeys |-> <<>>]

\* an 'ESG Scores' sheet nothing was written to
NoSheet == [kind |-> "none", rows |-> <<>>, note |-> "none", summary |-> NoComponents]

EsgIdle ==
    /\ ePhase = "idle"
    /\ esg_series = <<>>
    /\ esg_components = NoComponents
    /\ eYield = {}
    /\ esgSheet = NoSheet

\* the keys of info the summary looks at
InfoKeys == {"beta", "trailingPE", "trailingEps", "targetMeanPrice", "sector"}

MetricLabels == {"Beta (5Y Monthly)", "PE Ratio (TTM)", "EPS (TTM)"}

ProfileLabels == {"Sector"}

\* a cell nothing was written to
Unset == [value |-> 0, tag |-> "unset", origin |-> "none"]

SummaryIdle ==
    /\ mPhase = "idle"
    /\ info = [k \in InfoKeys |-> <<>>]
    /\ scraped_data = [k \in InfoKeys |-> <<>>]
    /\ right_col = [l \in MetricLabels |-> Unset]
    /\ profile = [l \in ProfileLabels |-> Unset]

StmtIdle ==
    /\ stmt = "income"
    /\ libHas = FALSE
    /\ sPhase = "idle"
    /\ response = [raised |-> FALSE, status_code |-> 200]
    /\ attempted = <<>>
    /\ results = [t \in {"json", "html", "library"} |-> <<>>]
    /\ table_data = <<>>
    /\ tier = "none"
    /\ history = <<>>
    /\ outcome = "pending"
    /\ written = <<>>

----------------------------------------------------------------------------
\* Time normalization

\* datetime.datetime.fromtimestamp(ts).strftime('%d-%m-%Y')
FormatTimestamp(ts) ==
    LET z    == (ts \div 86400) + 719468
        era  == z \div 146097
        doe  == z - era * 146097
        yoe  == (doe - (doe \div 1460) + (doe \div 36524) - (doe \div 146096)) \div 365
        doy  == doe - (365 * yoe + (yoe \div 4) - (yoe \div 100))
        mp   == (5 * doy + 2) \div 153
        d    == doy - ((153 * mp + 2) \div 5) + 1
        m    == IF mp < 10 THEN mp + 3 ELSE mp - 9
        y    == yoe + era * 400 + (IF m <= 2 THEN 1 ELSE 0)
    IN  <<d, m, y>>

UnknownDate == <<0, 0, 0>>

IsText(s) == s[1] = 0

\* The rank of a header string in Python's str order: strings compare
\* character by character, so "dd-mm-yyyy" ranks by day, then month, then
\* year; a text starting with a letter ranks above every string starting
\* with a digit.
StrKey(s) ==
    IF IsText(s) THEN 100000000 + s[3]
    ELSE s[1] * 1000000 + s[2] * 10000 + s[3]

\* sorted(dates, reverse=True)
SortDatesDesc(dates) == SortedDesc(dates, [i \in 1..Len(dates) |-> StrKey(dates[i])])

----------------------------------------------------------------------------
\* Statement tables built from provider JSON

\* The (display name, provider key) pairs; an empty key is a section header.
IncomeMetrics ==
    << <<"Revenue", "totalRevenue">>,
       <<"Cost of Revenue", "costOfRevenue">>,
       <<"Gross Profit", "grossProfit">>,
       <<"Operating Expenses", "">>,
       <<"Research Development", "researchDevelopment">>,
       <<"Selling General Administrative", "sellingGeneralAdministrative">>,
       <<"Non Recurring", "nonRecurring">>,
       <<"Others", "otherOperatingExpenses">>,
       <<"Total Operating Expenses", "totalOperatingExpenses">>,
       <<"Operating Income or Loss", "operatingIncome">>,
       <<"Income from Continuing Operations", "">>,
       <<"Total Other Income/Expenses Net", "totalOtherIncomeExpenseNet">>,
       <<"Earnings Before Interest and Taxes", "ebit">>,
       <<"Interest Expense", "interestExpense">>,
       <<"Income Before Tax", "incomeBeforeTax">>,
       <<"Income Tax Expense", "incomeTaxExpense">>,
       <<"Minority Interest", "minorityInterest">>,
       <<"Net Income From Continuing Ops", "netIncomeFromContinuingOps">>,
       <<"Discontinued Operations", "">>,
       <<"Extraordinary Items", "extraordinaryItems">>,
       <<"Effect Of Accounting Changes", "effectOfAccountingChanges">>,
       <<"Other Items", "otherItems">>,
       <<"Net Income", "netIncome">>,
       <<"Net Income Applicable To Common Shares", "netIncomeApplicableToCommonShares">> >>

BalanceMetrics ==
    << <<"Assets", "">>,
       <<"Current Assets", "">>,
       <<"Cash And Cash Equivalents", "cash">>,
       <<"Short Term Investments", "shortTermInvestments">>,
       <<"Net Receivables", "netReceivables">>,
       <<"Inventory", "inventory">>,
       <<"Other Current Assets", "otherCurrentAssets">>,
       <<"Total Current Assets", "totalCurrentAssets">>,
       <<"Long Term Assets", "">>,
       <<"Long Term Investments", "longTermInvestments">>,
       <<"Property Plant Equipment", "propertyPlantEquipment">>,
       <<"Goodwill", "goodwill">>,
       <<"Intangible Assets", "intangibleAssets">>,
       <<"Other Assets", "otherAssets">>,
       <<"Total Assets", "totalAssets">>,
       <<"Liabilities", "">>,
       <<"Current Liabilities", "">>,
       <<"Accounts Payable", "accountsPayable">>,
       <<"Short Term Debt", "shortLongTermDebt">>,
       <<"Other Current Liabilities", "otherCurrentLiabilities">>,
       <<"Total Current Liabilities", "totalCurrentLiabilities">>,
       <<"Long Term Debt", "longTermDebt">>,
       <<"Other Liabilities", "otherLiabilities">>,
       <<"Total Liabilities", "totalLiabilities">>,
       <<"Stockholders' Equity", "">>,
       <<"Common Stock", "commonStock">>,
       <<"Retained Earnings", "retainedEarnings">>,
       <<"Treasury Stock", "treasuryStock">>,
       <<"Other Stockholder Equity", "otherStockholderEquity">>,
       <<"Total Stockholder Equity", "totalStockholderEquity">> >>

CashFlowMetrics ==
    << <<"Operating Activities", "">>,
       <<"Net Income", "netIncome">>,
       <<"Depreciation", "depreciation">>,
       <<"Change in Working Capital", "changeToNetincome">>,
       <<"Change in Accounts Receivable", "changeToAccountReceivables">>,
       <<"Change in Liabilities", "changeToLiabilities">>,
       <<"Change in Inventory", "changeToInventory">>,
       <<"Change in Other Operating Activities", "changeToOperatingActivities">>,
       <<"Total Cash Flow from Operating Activities", "totalCashFromOperatingActivities">>,
       <<"Investing Activities", "">>,
       <<"Capital Expenditures", "capitalExpenditures">>,
       <<"Investments", "investments">>,
       <<"Other Cash Flows from Investing Activities", "otherCashflowsFromInvestingActivities">>,
       <<"Total Cash Flows from Investing Activities", "totalCashflowsFromInvestingActivities">>,
       <<"Financing Activities", "">>,
       <<"Dividends Paid", "dividendsPaid">>,
       <<"Stock Sale and Purchase", "netBorrowings">>,
       <<"Other Cash Flows from Financing Activities", "otherCashflowsFromFinancingActivities">>,
       <<"Total Cash Flows from Financing Activities", "totalCashFromFinancingActivities">>,
       <<"Net Change in Cash", "changeInCash">>,
       <<"Cash at Beginning of Period", "">>,
       <<"Cash at End of Period", "endCashPosition">> >>

Metrics(s) ==
    IF s = "income" THEN IncomeMetrics
    ELSE IF s = "balance" THEN BalanceMetrics
    ELSE CashFlowMetrics

\* The one provider key the modelled periods may publish, per statement;
\* every other key is unpublished in every period.
ProbeKey(s) ==
    IF s = "income" THEN "totalRevenue"
    ELSE IF s = "balance" THEN "cash"
    ELSE "netIncome"

\* Period-end instants the provider may report (epoch seconds):
\* 30-09-2023, 30-09-2023 one hour later, 31-12-2022, 31-12-2023.
Stamps == {1696032000, 1696035600, 1672444800, 1703980800}

\* period['endDate']: absent, a dict whose 'raw' is null, or a dict with an
\* integer 'raw'.
EndDates ==
    {[kind |-> "absent", raw |-> 0], [kind |-> "null", raw |-> 0]}
    \cup {[kind |-> "int", raw |-> t] : t \in Stamps}

\* period[key]: absent, a dict with 'fmt', a dict without 'fmt'.
Periods == [endDate : EndDates, pub : {"absent", "fmt", "nofmt"}]

Histories == SeqsUpTo(Periods, MaxPeriods)

\* the dates loop: one date per period that has 'endDate'
RECURSIVE HeaderDates(_)
HeaderDates(h) ==
    IF h = <<>> THEN <<>>
    ELSE LET p == h[Len(h)]
             rest == HeaderDates(SubSeq(h, 1, Len(h) - 1))
         IN  IF p.endDate.kind = "absent" THEN rest
             ELSE IF p.endDate.kind = "int"
                  THEN Append(rest, FormatTimestamp(p.endDate.raw))
                  ELSE Append(rest, UnknownDate)

\* x.get('endDate', {}).get('raw', 0)
RawKey(p) == IF p.endDate.kind = "int" THEN p.endDate.raw ELSE 0

\* sorted(...) compares a null 'raw' with another key: TypeError
PeriodSortRaises(h) ==
    Len(h) >= 2 /\ \E i \in 1..Len(h) : h[i].endDate.kind = "null"

\* sorted(history, key=raw, reverse=True), as indices into history
PeriodOrder(h) == SortPermDesc(Len(h), [i \in 1..Len(h) |-> RawKey(h[i])])

\* a lookup that shows N/A for every cell without a formatted value
CellValueNotAvailable(h, i, key, probe) ==
    IF key # probe \/ h[i].pub # "fmt" THEN "N/A"
    ELSE ToString(i)

\* period[json_key].get('fmt', 'N/A'), "" when the key is absent; the fmt
\* text of the i-th period of the input is the numeral of i.
CellValue(h, i, key, probe) ==
    IF key # probe \/ h[i].pub = "absent" THEN ""
    ELSE IF h[i].pub = "fmt" THEN ToString(i)
    ELSE "N/A"

PadTo(cells, n) ==
    cells \o [i \in 1..(IF n > Len(cells) THEN n - Len(cells) ELSE 0) |-> ""]

Min(a, b) == IF a <= b THEN a ELSE b

JsonMetricRow(h, dates, metric, probe) ==
    IF metric[2] = ""
    THEN [label |-> metric[1], cells |-> [i \in 1..Len(dates) |-> ""]]
    ELSE LET order == PeriodOrder(h)
             taken == [i \in 1..Min(Len(h), Len(dates)) |->
                          CellValue(h, order[i], metric[2], probe)]
         IN  [label |-> metric[1], cells |-> PadTo(taken, Len(dates))]

\* _process_json_income_data, _process_json_balance_data,
\* _process_json_cash_flow_data: the table, or <<>> for None.  The caller
\* catches the TypeError of the sort and is left with None.
ProcessJsonData(s, h) ==
    IF h = <<>> \/ PeriodSortRaises(h) THEN <<>>
    ELSE LET dates == SortDatesDesc(HeaderDates(h))
             ms == Metrics(s)
         IN  <<[label |-> "Breakdown", cells |-> dates]>>
             \o [k \in 1..Len(ms) |-> JsonMetricRow(h, dates, ms[k], ProbeKey(s))]

----------------------------------------------------------------------------
\* _process_financials_chart (income statement only)

\* item['date']: absent, an integer year, or a numeric string
ChartItems ==
    {[kind |-> "absent", year |-> 0]}
    \cup {[kind |-> "int", year |-> y] : y \in {2022, 2023}}
    \cup {[kind |-> "str", year |-> 2022]}

Charts == SeqsUpTo(ChartItems, MaxPeriods)

\* f"31-12-{int(item['date'])}" for every item that has 'date'
RECURSIVE ChartDates(_)
ChartDates(yearly) ==
    IF yearly = <<>> THEN <<>>
    ELSE LET it == yearly[Len(yearly)]
             rest == ChartDates(SubSeq(yearly, 1, Len(yearly) - 1))
         IN  IF it.kind = "absent" THEN rest
             ELSE Append(rest, <<31, 12, it.year>>)

\* sorted(yearly, key=lambda x: x.get('date', '')) compares an int with a
\* str (the '' of an item without 'date' is a str): TypeError
ChartSortRaises(yearly) ==
    \E i, j \in 1..Len(yearly) :
        yearly[i].kind = "int" /\ yearly[j].kind # "int"

ChartOrder(yearly) ==
    SortPermDesc(Len(yearly), [i \in 1..Len(yearly) |-> yearly[i].year])

ProcessFinancialsChart(yearly) ==
    IF yearly = <<>> \/ ChartSortRaises(yearly) THEN <<>>
    ELSE LET dates == SortDatesDesc(ChartDates(yearly))
             order == ChartOrder(yearly)
             n == Len(dates)
             revenue == [i \in 1..Len(yearly) |-> ToString(order[i])]
             earnings == [i \in 1..Len(yearly) |-> "N/A"]
         IN  << [label |-> "Breakdown", cells |-> dates],
                [label |-> "Revenue", cells |-> PadTo(revenue, n)],
                [label |-> "Operating Expenses",
                 cells |-> <<"">> \o [i \in 1..(IF n > 1 THEN n - 1 ELSE 0) |-> ""]],
                [label |-> "Net Income", cells |-> PadTo(earnings, n)] >>

----------------------------------------------------------------------------
\* _parse_income_table, _parse_balance_table, _parse_cash_flow_table

\* The text of a header cell after the first: "mm/dd/yyyy", "yyyy-mm-dd",
\* a text with a '/' but not three parts ("12/2023"), or a plain text ("ttm").
HeaderCells ==
    { [sep |-> "/", parts |-> <<9, 30, 2023>>],
      [sep |-> "-", parts |-> <<2022, 12, 31>>],
      [sep |-> "/", parts |-> <<12, 2023>>],
      [sep |-> "", parts |-> <<>>] }

\* thead: FALSE when the table has no <thead> (find() returns None and the
\* parser's own handler returns None); rows: the number of <td> of each
\* body row.
HtmlTables ==
    [thead : {TRUE}, header : SeqsUpTo(HeaderCells, MaxPeriods),
     rows : SeqsUpTo(0..(MaxPeriods + 2), MaxRows)]
    \cup {[thead |-> FALSE, header |-> <<>>, rows |-> <<>>]}

RECURSIVE ParseHeaderDates(_)
ParseHeaderDates(cells) ==
    IF cells = <<>> THEN <<>>
    ELSE LET c == cells[Len(cells)]
             rest == ParseHeaderDates(SubSeq(cells, 1, Len(cells) - 1))
         IN  IF c.sep = "/"
             THEN IF Len(c.parts) = 3
                  THEN Append(rest, <<c.parts[2], c.parts[1], c.parts[3]>>)
                  ELSE rest
             ELSE IF c.sep = "-"
             THEN IF Len(c.parts) = 3
                  THEN Append(rest, <<c.parts[3], c.parts[2], c.parts[1]>>)
                  ELSE rest
             ELSE Append(rest, <<0, 0, 1>>)

\* the body rows with more than one cell; the first cell is the label
RECURSIVE ParseBodyRows(_)
ParseBodyRows(rows) ==
    IF rows = <<>> THEN <<>>
    ELSE LET n == rows[Len(rows)]
             rest == ParseBodyRows(SubSeq(rows, 1, Len(rows) - 1))
         IN  IF n > 1
             THEN Append(rest, [label |-> "td", cells |-> [i \in 1..(n - 1) |-> "td"]])
             ELSE rest

ParseTable(t) ==
    IF ~t.thead THEN <<>>
    ELSE <<[label |-> "Breakdown", cells |-> ParseHeaderDates(t.header)]>>
         \o ParseBodyRows(t.rows)

----------------------------------------------------------------------------
\* _process_yfinance_income_data, _process_yfinance_balance_data,
\* _process_yfinance_cash_flow_data

\* The frame the accessor returns: its period columns (Timestamps, as epoch
\* seconds) and its number of metric rows; ok is FALSE when a column label
\* is not a datetime, so strftime raises and the processor returns None.
Frames ==
    [ok : BOOLEAN, dates : SeqsUpTo(Stamps, MaxPeriods) \ {<<>>}, nmetrics : 1..2]

ProcessYfinanceData(f) ==
    IF ~f.ok THEN <<>>
    ELSE <<[label |-> "Breakdown",
            cells |-> [i \in 1..Len(f.dates) |-> FormatTimestamp(f.dates[i])]]>>
         \o [k \in 1..f.nmetrics |->
                [label |-> "metric", cells |-> [i \in 1..Len(f.dates) |-> "value"]]]

----------------------------------------------------------------------------
\* _scrape_income_statement, _scrape_balance_sheet, _scrape_cash_flow

Statements == {"income", "balance", "cash"}

TierOrder == <<"json", "html", "library">>

NoResults == [t \in Range(TierOrder) |-> <<>>]

Responses == [raised : BOOLEAN, status_code : {200, 503}]

\* requests.get raised, or `if response.status_code != 200: raise`
RequestFails(r) == r.raised \/ r.status_code # 200

\* the next tier run unconditionally
NeedsNextTierAlways(data) == TRUE

\* `if not income_data:` in front of Method 2 and Method 3
NeedsNextTier(data) == data = <<>>

\* `if not income_data or len(income_data) <= 1: raise`
NoUsableData(data) == data = <<>> \/ Len(data) <= 1

StmtInit ==
    /\ stmt \in Statements
    /\ libHas \in BOOLEAN
    /\ sPhase = "request"
    /\ response = [raised |-> FALSE, status_code |-> 200]
    /\ attempted = <<>>
    /\ results = NoResults
    /\ table_data = <<>>
    /\ tier = "none"
    /\ history = <<>>
    /\ outcome = "pending"
    /\ written = <<>>
    /\ PeersIdle
    /\ MainIdle
    /\ EsgIdle
    /\ SummaryIdle
    /\ AuxIdle

\* the except handler of the scraper: the sheet gets the error message
StmtHandler ==
    /\ outcome' = "error"
    /\ sPhase' = "done"
    /\ written' = <<>>

\* response = requests.get(url, headers=headers, timeout=15) and the status
\* check
ScrapeRequest ==
    /\ sPhase = "request"
    /\ \E r \in Responses :
        /\ response' = r
        /\ IF RequestFails(r)
           THEN StmtHandler
           ELSE /\ sPhase' = "method1"
                /\ UNCHANGED <<outcome, written>>
    /\ UNCHANGED <<stmt, libHas, attempted, results, table_data, tier, history>>
    /\ UNCHANGED <<mainVars, peerVars, esgVars, sumVars, auxVars>>

\* What the page embeds: no root.App.main match; a match json.loads rejects;
\* a document without the statement's store entry (or one whose navigation
\* raises inside the inner try); the statement history; the earnings chart.
Embedded ==
    {[kind |-> "nomatch", periods |-> <<>>, yearly |-> <<>>],
     [kind |-> "badjson", periods |-> <<>>, yearly |-> <<>>],
     [kind |-> "nostore", periods |-> <<>>, yearly |-> <<>>]}
    \cup {[kind |-> "history", periods |-> h, yearly |-> <<>>] : h \in Histories}
    \cup {[kind |-> "chart", periods |-> <<>>, yearly |-> y] : y \in Charts}

\* Method 1 of the scraper for statement s on embedded content e
Method1Result(s, e) ==
    IF e.kind = "history" THEN ProcessJsonData(s, e.periods)
    ELSE IF e.kind = "chart" /\ s = "income" THEN ProcessFinancialsChart(e.yearly)
    ELSE <<>>

Method1 ==
    /\ sPhase = "method1"
    /\ \E e \in Embedded :
        IF e.kind = "badjson"
        THEN \* json.loads(matches[0]) is outside the inner try
             /\ StmtHandler
             /\ attempted' = Append(attempted, "json")
             /\ UNCHANGED <<results, table_data, tier, history>>
        ELSE LET data == Method1Result(stmt, e)
             IN  /\ attempted' = Append(attempted, "json")
                 /\ results' = [results EXCEPT !["json"] = data]
                 /\ table_data' = data
                 /\ tier' = IF data = <<>> THEN "none"
                            ELSE IF e.kind = "chart" THEN "chart" ELSE "json"
                 /\ history' = IF data # <<>> /\ e.kind = "history"
                               THEN e.periods ELSE <<>>
                 /\ sPhase' = "method2"
                 /\ UNCHANGED <<outcome, written>>
    /\ UNCHANGED <<stmt, libHas, response>>
    /\ UNCHANGED <<mainVars, peerVars, esgVars, sumVars, auxVars>>

\* Method 2: the first <table> whose text names the statement, if any
Method2 ==
    /\ sPhase = "method2"
    /\ IF NeedsNextTier(table_data)
       THEN \E found \in BOOLEAN :
              \E t \in (IF found THEN HtmlTables ELSE {[thead |-> FALSE, header |-> <<>>, rows |-> <<>>]}) :
                LET data == IF found THEN ParseTable(t) ELSE <<>>
                IN  /\ attempted' = Append(attempted, "html")
                    /\ results' = [results EXCEPT !["html"] = data]
                    /\ table_data' = data
                    /\ tier' = IF data = <<>> THEN "none" ELSE "html"
                    /\ history' = <<>>
       ELSE UNCHANGED <<attempted, results, table_data, tier, history>>
    /\ sPhase' = "method3"
    /\ UNCHANGED <<stmt, libHas, response, outcome, written>>
    /\ UNCHANGED <<mainVars, peerVars, esgVars, sumVars, auxVars>>

\* Method 3: self.ticker.income_stmt / balance_sheet / cash_flow.  Without
\* data the accessor returns None or an empty frame, or raises.
Method3 ==
    /\ sPhase = "method3"
    /\ IF NeedsNextTier(table_data)
       THEN IF libHas
            THEN \E f \in Frames :
                   LET data == ProcessYfinanceData(f)
                   IN  /\ attempted' = Append(attempted, "library")
                       /\ results' = [results EXCEPT !["library"] = data]
                       /\ table_data' = data
                       /\ tier' = IF data = <<>> THEN "none" ELSE "library"
                       /\ sPhase' = "finish"
                       /\ UNCHANGED <<outcome, written>>
            ELSE \E raises \in BOOLEAN :
                   /\ attempted' = Append(attempted, "library")
                   /\ UNCHANGED <<results, table_data, tier>>
                   /\ IF raises
                      THEN StmtHandler
                      ELSE /\ sPhase' = "finish"
                           /\ UNCHANGED <<outcome, written>>
       ELSE /\ sPhase' = "finish"
            /\ UNCHANGED <<attempted, results, table_data, tier, outcome, written>>
    /\ UNCHANGED <<stmt, libHas, response, history>>
    /\ UNCHANGED <<mainVars, peerVars, esgVars, sumVars, auxVars>>

\* The final check, then the worksheet: add_worksheet and the cell-by-cell
\* write, which raises on a cell value xlsxwriter has no writer for.
Finish ==
    /\ sPhase = "finish"
    /\ IF NoUsableData(table_data)
       THEN StmtHandler
       ELSE \E writeFails \in BOOLEAN :
              IF writeFails
              THEN StmtHandler
              ELSE /\ outcome' = "data"
                   /\ written' = table_data
                   /\ sPhase' = "done"
    /\ UNCHANGED <<stmt, libHas, response, attempted, results, table_data, tier, history>>
    /\ UNCHANGED <<mainVars, peerVars, esgVars, sumVars, auxVars>>

StmtNext == ScrapeRequest \/ Method1 \/ Method2 \/ Method3 \/ Finish

SpecStmt == StmtInit /\ [][StmtNext]_vars

----------------------------------------------------------------------------
\* The workbook

InWorkbook(shs, name) == \E i \in 1..Len(shs) : shs[i] = name

\* workbook.add_worksheet(name): DuplicateWorksheetName when the name is taken
AddWorksheet(shs, name) ==
    IF InWorkbook(shs, name)
    THEN [raised |-> TRUE, sheets |-> shs]
    ELSE [raised |-> FALSE, sheets |-> Append(shs, name)]

\* DataFrame.to_excel(self.writer, sheet_name=name): the writer looks the
\* sheet up by name and adds it only when it is missing
ToExcel(shs, name) ==
    [raised |-> FALSE,
     sheets |-> IF InWorkbook(shs, name) THEN shs ELSE Append(shs, name)]

\* an except handler whose own write raises
HandlerWriteRaises(shs, name) == [raised |-> TRUE, sheets |-> shs]

\* the error sheet written through add_worksheet instead
HandlerWriteAddWorksheet(shs, name) == AddWorksheet(shs, name)

\* the except handler of a category operation:
\* pd.DataFrame({"Error": [...]}).to_excel(self.writer, sheet_name=name)
HandlerWrite(shs, name) == ToExcel(shs, name)

\* A whole category operation on workbook (shs, cont).  fail is where its
\* try block raises: "none", "before" its sheet exists (network, parsing,
\* no data), "after" its sheet was created (writing or formatting it).
RunCategory(shs, cont, name, fail) ==
    LET created == IF fail = "before" THEN shs ELSE Append(shs, name)
        cont1 == IF fail = "before" THEN cont ELSE [cont EXCEPT ![name] = "data"]
        h == HandlerWrite(created, name)
    IN  IF fail = "none"
        THEN [raised |-> FALSE, sheets |-> created, content |-> cont1]
        ELSE IF h.raised
        THEN [raised |-> TRUE, sheets |-> created, content |-> cont1]
        ELSE [raised |-> FALSE, sheets |-> h.sheets,
              content |-> [cont1 EXCEPT ![name] =
                              IF fail = "after" THEN "error_over_data" ELSE "error"]]

FailPoints == {"none", "before", "after"}

----------------------------------------------------------------------------
\* fetch_all_data

MainInit ==
    /\ pc = "check"
    /\ writer = "none"
    /\ sheets = <<>>
    /\ content = [n \in AllSheets |-> "absent"]
    /\ submitted = 0
    /\ tstate = [t \in Tasks |-> "unsubmitted"]
    /\ top = [t \in Tasks |-> 1]
    /\ tphase = [t \in Tasks |-> "acquire"]
    /\ awaited = {}
    /\ ret = "none"
    /\ abortCause = "none"
    /\ escaped = {}
    /\ nfail = 0
    /\ fileLocked = FALSE
    /\ StmtIdle
    /\ PeersIdle
    /\ EsgIdle
    /\ SummaryIdle
    /\ AuxIdle

\* `return None` from fetch_all_data
ReturnNone(cause) ==
    /\ pc' = "returned"
    /\ ret' = "None"
    /\ abortCause' = cause

\* the lock check left out
LockedNever(exists, denied) == FALSE

\* the lock check: `return None` exactly when the file exists and opening
\* it for appending raises PermissionError
Locked(exists, denied) == exists /\ denied

\* the existence and lock check, then pd.ExcelWriter(...)
CheckAndOpen ==
    /\ pc = "check"
    /\ \E exists \in BOOLEAN, denied \in BOOLEAN, writerFails \in BOOLEAN :
        /\ fileLocked' = (exists /\ denied)
        /\ IF Locked(exists, denied)
           THEN ReturnNone("locked") /\ UNCHANGED writer
           ELSE IF writerFails
           THEN ReturnNone("writer") /\ UNCHANGED writer
           ELSE /\ writer' = "open"
                /\ pc' = Sequential[1]
                /\ UNCHANGED <<ret, abortCause>>
    /\ UNCHANGED <<sheets, content, submitted, tstate, top, tphase, awaited, escaped, nfail>>
    /\ UNCHANGED <<stmtVars, peerVars, esgVars, sumVars, auxVars>>

\* one of the four calls fetch_all_data makes itself; an exception leaving
\* the call lands in `except Exception` of fetch_all_data
RunSequential(i) ==
    /\ pc = Sequential[i]
    /\ \E fail \in FailPoints :
        LET r == RunCategory(sheets, content, Sequential[i], fail)
        IN  /\ fail # "none" => nfail < MaxFailures
            /\ nfail' = IF fail = "none" THEN nfail ELSE nfail + 1
            /\ sheets' = r.sheets
            /\ content' = r.content
            /\ IF r.raised
               THEN /\ escaped' = escaped \cup {Sequential[i]}
                    /\ ReturnNone("category")
               ELSE /\ pc' = IF i < 4 THEN Sequential[i + 1] ELSE "submit"
                    /\ UNCHANGED <<escaped, ret, abortCause>>
    /\ UNCHANGED <<writer, submitted, tstate, top, tphase, awaited>>
    /\ UNCHANGED <<fileLocked, stmtVars, peerVars, esgVars, sumVars, auxVars>>

FetchHistoricalData == RunSequential(1)

FetchEsgData == RunSequential(2)

FetchCompanySummary == RunSequential(3)

FetchStatistics == RunSequential(4)

\* the next self.executor.submit(...) of the tasks list
Submit ==
    /\ pc = "submit"
    /\ submitted' = submitted + 1
    /\ tstate' = [tstate EXCEPT ![SubmitOrder[submitted + 1]] = "queued"]
    /\ pc' = IF submitted + 1 = Len(SubmitOrder) THEN "await" ELSE "submit"
    /\ UNCHANGED <<writer, sheets, content, top, tphase, awaited, ret, abortCause, escaped, nfail>>
    /\ UNCHANGED <<fileLocked, stmtVars, peerVars, esgVars, sumVars, auxVars>>

Running == {t \in Tasks : tstate[t] = "running"}

\* a free worker thread takes a queued task
TaskStart(t) ==
    /\ tstate[t] = "queued"
    /\ Cardinality(Running) < Workers
    /\ tstate' = [tstate EXCEPT ![t] = "running"]
    /\ UNCHANGED <<pc, writer, sheets, content, submitted, top, tphase, awaited,
                   ret, abortCause, escaped, nfail>>
    /\ UNCHANGED <<fileLocked, stmtVars, peerVars, esgVars, sumVars, auxVars>>

CurrentOp(t) == Program[t][top[t]]

\* the acquisition part of the task's current category operation: requests,
\* parsing and library calls, up to the point where it turns to the workbook
TaskAcquire(t) ==
    /\ tstate[t] = "running"
    /\ tphase[t] = "acquire"
    /\ \E ok \in BOOLEAN :
        /\ ~ok => nfail < MaxFailures
        /\ nfail' = IF ok THEN nfail ELSE nfail + 1
        /\ tphase' = [tphase EXCEPT ![t] = IF ok THEN "acquired" ELSE "failed"]
    /\ UNCHANGED <<pc, writer, sheets, content, submitted, tstate, top, awaited,
                   ret, abortCause, escaped>>
    /\ UNCHANGED <<fileLocked, stmtVars, peerVars, esgVars, sumVars, auxVars>>

\* The task leaves its current category operation.  An exception of a
\* statement scraper is caught by fetch_financials, which writes the
\* 'Financials' sheet and returns; any other exception ends the task.
TaskLeave(t, r) ==
    LET fin == IF r.raised /\ t = "financials"
               THEN HandlerWrite(r.sheets, "Financials")
               ELSE [raised |-> r.raised, sheets |-> r.sheets]
        caught == r.raised /\ t = "financials" /\ ~fin.raised
    IN  /\ sheets' = fin.sheets
        /\ content' = IF caught THEN [r.content EXCEPT !["Financials"] = "error"]
                      ELSE r.content
        /\ IF fin.raised
           THEN /\ tstate' = [tstate EXCEPT ![t] = "raised"]
                /\ escaped' = escaped \cup {t}
                /\ UNCHANGED top
           ELSE IF caught \/ top[t] = Len(Program[t])
           THEN /\ tstate' = [tstate EXCEPT ![t] = "done"]
                /\ UNCHANGED <<top, escaped>>
           ELSE /\ top' = [top EXCEPT ![t] = top[t] + 1]
                /\ UNCHANGED <<tstate, escaped>>
        /\ tphase' = [tphase EXCEPT ![t] = "acquire"]

\* the task turns to the workbook: it creates the sheet of its category
\* (add_worksheet or to_excel) and starts writing, or, after a failed
\* acquisition, its handler writes the error sheet
TaskBeginWrite(t) ==
    /\ tstate[t] = "running"
    /\ tphase[t] \in {"acquired", "failed"}
    /\ IF tphase[t] = "failed"
       THEN TaskLeave(t, RunCategory(sheets, content, CurrentOp(t), "before"))
       ELSE /\ sheets' = Append(sheets, CurrentOp(t))
            /\ content' = [content EXCEPT ![CurrentOp(t)] = "data"]
            /\ tphase' = [tphase EXCEPT ![t] = "writing"]
            /\ UNCHANGED <<tstate, top, escaped>>
    /\ UNCHANGED <<pc, writer, submitted, awaited, ret, abortCause, nfail>>
    /\ UNCHANGED <<fileLocked, stmtVars, peerVars, esgVars, sumVars, auxVars>>

\* the rest of the writing and formatting of the sheet; when it raises, the
\* handler writes the error message into the sheet that already exists
TaskEndWrite(t) ==
    /\ tstate[t] = "running"
    /\ tphase[t] = "writing"
    /\ \E fails \in BOOLEAN :
        LET h == HandlerWrite(sheets, CurrentOp(t))
        IN  /\ fails => nfail < MaxFailures
            /\ nfail' = IF fails THEN nfail + 1 ELSE nfail
            /\ TaskLeave(t,
                IF ~fails THEN [raised |-> FALSE, sheets |-> sheets, content |-> content]
                ELSE IF h.raised THEN [raised |-> TRUE, sheets |-> sheets, content |-> content]
                ELSE [raised |-> FALSE, sheets |-> h.sheets,
                      content |-> [content EXCEPT ![CurrentOp(t)] = "error_over_data"]])
    /\ UNCHANGED <<pc, writer, submitted, awaited, ret, abortCause>>
    /\ UNCHANGED <<fileLocked, stmtVars, peerVars, esgVars, sumVars, auxVars>>

\* the await loop stopping after its first future
LoopExhaustedEarly(done) == done # {}

\* the `for future in asyncio.as_completed(...)` loop ends when every
\* submitted future was awaited
LoopExhausted(done) == done = Tasks

\* `await future` for the next completed future of as_completed; a future
\* that holds an exception re-raises it into fetch_all_data
AwaitNext ==
    /\ pc = "await"
    /\ \E t \in Tasks \ awaited :
        /\ tstate[t] \in {"done", "raised"}
        /\ awaited' = awaited \cup {t}
        /\ IF tstate[t] = "raised"
           THEN ReturnNone("category")
           ELSE /\ pc' = IF LoopExhausted(awaited \cup {t}) THEN "close" ELSE "await"
                /\ UNCHANGED <<ret, abortCause>>
    /\ UNCHANGED <<writer, sheets, content, submitted, tstate, top, tphase, escaped, nfail>>
    /\ UNCHANGED <<fileLocked, stmtVars, peerVars, esgVars, sumVars, auxVars>>

\* self.writer.close() and `return self.filename`; close() writes the file
\* and may raise (the file got locked meanwhile)
CloseAndReturn ==
    /\ pc = "close"
    /\ \E closeFails \in BOOLEAN :
        IF closeFails
        THEN ReturnNone("close") /\ UNCHANGED writer
        ELSE /\ writer' = "closed"
             /\ pc' = "returned"
             /\ ret' = "filename"
             /\ UNCHANGED abortCause
    /\ UNCHANGED <<sheets, content, submitted, tstate, top, tphase, awaited, escaped, nfail>>
    /\ UNCHANGED <<fileLocked, stmtVars, peerVars, esgVars, sumVars, auxVars>>

Next ==
    \/ CheckAndOpen
    \/ FetchHistoricalData
    \/ FetchEsgData
    \/ FetchCompanySummary
    \/ FetchStatistics
    \/ Submit
    \/ \E t \in Tasks : TaskStart(t)
    \/ \E t \in Tasks : TaskAcquire(t)
    \/ \E t \in Tasks : TaskBeginWrite(t)
    \/ \E t \in Tasks : TaskEndWrite(t)
    \/ AwaitNext
    \/ CloseAndReturn

Spec == MainInit /\ [][Next]_vars

----------------------------------------------------------------------------
\* Properties of fetch_all_data (checked under Spec)

\* C1: no exception of a category operation reaches fetch_all_data: wherever
\* its try block fails, before or after its sheet exists, the operation
\* returns normally, and fetch_all_data never returns None because of it.
C1_NoCategoryExceptionEscapes ==
    /\ escaped = {}
    /\ \A t \in Tasks : tstate[t] # "raised"
    /\ abortCause # "category"

\* C1 witness: the run returned the filename although a sequential category
\* and a pooled one each failed after its sheet had been created.
C1_Witness ==
    /\ ret = "filename"
    /\ content["Historical Data"] = "error_over_data"
    /\ content["Income Statement"] = "error_over_data"

\* the nine categories of the workbook
Categories ==
    {"Historical Data", "ESG Scores", "Company Summary", "Statistics",
     "Income Statement", "Balance Sheet", "Cash Flow", "Sustainability", "Peers"}

\* C11: after a run that returns the filename the workbook has exactly one
\* sheet for each of the nine categories and no other sheet, and each sheet
\* holds either its data or a single error message.
C11_NineSheetsDataOrError ==
    ret = "filename" =>
        /\ Len(sheets) = 9
        /\ Range(sheets) = Categories
        /\ \A n \in Categories : content[n] \in {"data", "error"}

\* the run got past the lock check and the creation of the writer and has
\* left the await loop
RunEnded == pc \in {"close", "returned"} /\ abortCause \notin {"locked", "writer"}

\* C12: a failure in one category never keeps another category from
\* running to completion and producing its sheet: when the run ends every
\* category has its sheet, whichever categories failed, and once the
\* financials task is done the three statement sheets exist even when the
\* income statement step failed.
C12_FailureDoesNotBlockOthers ==
    /\ RunEnded => \A n \in Categories : InWorkbook(sheets, n) /\ content[n] # "absent"
    /\ tstate["financials"] \in {"done", "raised"} =>
            \A n \in {"Income Statement", "Balance Sheet", "Cash Flow"} :
                InWorkbook(sheets, n) /\ content[n] # "absent"

C12_Witness ==
    /\ ret = "filename"
    /\ content["ESG Scores"] = "error"
    /\ content["Income Statement"] = "error"
    /\ content["Balance Sheet"] = "data"
    /\ content["Cash Flow"] = "data"
    /\ content["Peers"] = "data"

\* C13: at every moment at most one pooled task is writing to the workbook.
C13_WritesMutuallyExclusive ==
    Cardinality({t \in Tasks : tphase[t] = "writing"}) <= 1

\* C14: the writer is closed only after all three pooled tasks completed:
\* fetch_all_data is at close(), or past it with the writer closed, only
\* when no task is unstarted, queued or running.
C14_CloseAfterAllTasks ==
    (pc = "close" \/ writer = "closed") => \A t \in Tasks : tstate[t] = "done"

C14_Witness ==
    /\ writer = "closed"
    /\ \A t \in Tasks : tstate[t] = "done"
    /\ awaited = Tasks

\* the sheets of the workbook start with the first k sequential categories
SequentialSheets(k) ==
    /\ Len(sheets) >= k
    /\ \A i \in 1..k :
        sheets[i] = <<"Historical Data", "ESG Scores", "Company Summary", "Statistics">>[i]

\* C15: the four order-sensitive categories run one at a time in the order
\* Historical Data, ESG Scores, Company Summary, Statistics, and all four
\* have finished before any pooled task is submitted, so their sheets are
\* the first four of the workbook, in that order.
C15_SequentialFirstInOrder ==
    /\ \A i \in 1..4 :
        pc = <<"Historical Data", "ESG Scores", "Company Summary", "Statistics">>[i] =>
            /\ Len(sheets) = i - 1
            /\ SequentialSheets(i - 1)
            /\ submitted = 0
            /\ \A t \in Tasks : tstate[t] = "unsubmitted"
    /\ (submitted > 0 \/ \E t \in Tasks : tstate[t] # "unsubmitted") => SequentialSheets(4)
    /\ pc \in {"submit", "await", "close"} => SequentialSheets(4)

C15_Witness ==
    /\ tphase["peers"] = "writing"
    /\ SequentialSheets(4)
    /\ Len(sheets) > 4
    /\ content["ESG Scores"] = "error"

\* C16: when the output file exists and cannot be opened for appending,
\* fetch_all_data returns None before any acquisition: no writer, no
\* category operation, no task submitted.
C16_LockedFileReturnsEarly ==
    fileLocked =>
        /\ ret = "None"
        /\ abortCause = "locked"
        /\ writer = "none"
        /\ sheets = <<>>
        /\ \A n \in AllSheets : content[n] = "absent"
        /\ submitted = 0
        /\ \A t \in Tasks : tstate[t] = "unsubmitted"

C16_Witness == fileLocked /\ pc = "returned" /\ ret = "None"

----------------------------------------------------------------------------
\* Properties of the statement scrapers (checked under SpecStmt)

\* the first tier, in chain order, whose result is a table
FirstProducing ==
    IF results["json"] # <<>> THEN "json"
    ELSE IF results["html"] # <<>> THEN "html"
    ELSE IF results["library"] # <<>> THEN "library"
    ELSE "none"

IsPrefix(s, t) == Len(s) <= Len(t) /\ \A i \in 1..Len(s) : s[i] = t[i]

\* C2: a statement category ends with the error sheet only if all three
\* tiers were attempted and none of them returned a table with a data row.
C2_UnavailableOnlyAfterWholeChain ==
    (sPhase = "done" /\ outcome = "error") =>
        /\ attempted = TierOrder
        /\ \A t \in Range(TierOrder) : Len(results[t]) <= 1

\* C3: when only the financials page is out (the request raises or the
\* status is not 200) and the library accessor has income-statement data,
\* the Income Statement ends with a table taken from the library tier.
C3_OutageFallsThroughToLibrary ==
    (sPhase = "done" /\ stmt = "income" /\ RequestFails(response) /\ libHas) =>
        (outcome = "data" /\ tier = "library" /\ Len(written) > 1)

\* C4: the tiers are attempted in the order json, html, library; a tier is
\* attempted only after every earlier tier returned nothing; the table
\* written to the sheet is the result of the first tier that returned one.
C4_TierOrder ==
    /\ IsPrefix(attempted, TierOrder)
    /\ \A i \in 1..Len(attempted) : \A j \in 1..(i - 1) : results[attempted[j]] = <<>>
    /\ outcome = "data" =>
          (FirstProducing # "none" /\ written = results[FirstProducing])

\* C4 witness: the library tier was reached after the two page tiers
\* returned nothing, and its table was written.
C4_Witness ==
    /\ sPhase = "done" /\ outcome = "data"
    /\ attempted = TierOrder
    /\ FirstProducing = "library"

\* C5: every row of a written statement table has len(dates)+1 cells, the
\* width of the header row.
C5_RowsMatchHeader ==
    outcome = "data" =>
        \A i \in 1..Len(written) : Len(written[i].cells) = Len(written[1].cells)

\* the instants of the periods of h, newest first
InstantsDesc(h) ==
    SortedDesc([i \in 1..Len(h) |-> h[i].endDate.raw],
               [i \in 1..Len(h) |-> h[i].endDate.raw])

\* C6: in a table built from provider JSON the header dates are the period
\* ends ordered newest-first by their epoch timestamp.
C6_HeaderNewestFirstByInstant ==
    (outcome = "data" /\ tier = "json"
       /\ \A i \in 1..Len(history) : history[i].endDate.kind = "int") =>
        written[1].cells =
            [i \in 1..Len(history) |-> FormatTimestamp(InstantsDesc(history)[i])]

\* C7: the dates in the header of a written statement table are pairwise
\* distinct.
C7_HeaderDatesDistinct ==
    outcome = "data" =>
        \A i, j \in 1..Len(written[1].cells) :
            i # j => written[1].cells[i] # written[1].cells[j]

----------------------------------------------------------------------------
\* fetch_peers_esg

\* A ticker is the sequence of its characters.
Tickers ==
    { <<"A">>, <<"B">>, <<"^", "G">>, <<"E", "=", "F">>, <<"D", "J", "T">> }

Subjects == { <<"A">>, <<"^", "G">> }

StartsWith(t, c) == Len(t) >= 1 /\ t[1] = c

Contains(t, c) == \E i \in 1..Len(t) : t[i] = c

EndsWith(t, suffix) ==
    /\ Len(t) >= Len(suffix)
    /\ \A i \in 1..Len(suffix) : t[Len(t) - Len(suffix) + i] = suffix[i]

Caret3DF == <<"^", "3", "D", "F">>

\* ticker.startswith('^') or '=' in ticker or ticker.endswith('^3DF') or
\* ticker == 'DJT'   (anchor tier and script tier)
IsNonCompany(t) ==
    StartsWith(t, "^") \/ Contains(t, "=") \/ EndsWith(t, Caret3DF) \/ t = <<"D", "J", "T">>

\* the tickers the final filter names
FilterList ==
    { <<"D", "J", "T">>, <<"S", "P", "Y">>,
      <<"E", "S", "%", "3", "D", "F">>, <<"Y", "M", "%", "3", "D", "F">>,
      <<"N", "Q", "%", "3", "D", "F">>, <<"R", "T", "Y", "%", "3", "D", "F">>,
      <<"C", "L", "%", "3", "D", "F">>, <<"G", "C", "%", "3", "D", "F">> }

\* an entry of peer_data: its ticker, whether its company name holds one of
\* the boilerplate keywords, whether one of its four scores is truthy
Entry(t, boilerplate, scored) ==
    [Ticker |-> t, boilerplate |-> boilerplate, scored |-> scored]

TickersOf(list) == {list[i].Ticker : i \in 1..Len(list)}

\* An <a href=".../quote/..."> of the peers section: the ticker its href
\* yields (possibly empty), its company name, its score cells.
Anchors == [ticker : Tickers \cup {<<>>}, boilerplate : BOOLEAN, scored : BOOLEAN]

\* the two `continue` tests in front of the row lookup
AnchorSkipped(acc, a, subj) ==
    \/ a.ticker = <<>> \/ a.ticker = subj \/ a.ticker \in TickersOf(acc)
    \/ IsNonCompany(a.ticker)

\* one pass of the anchor loop
AnchorStep(acc, a, subj) ==
    IF AnchorSkipped(acc, a, subj) \/ a.boilerplate THEN acc
    ELSE Append(acc, Entry(a.ticker, a.boilerplate, a.scored))

RECURSIVE AnchorLoop(_, _, _)
AnchorLoop(anchors, n, subj) ==
    IF n = 0 THEN <<>>
    ELSE AnchorStep(AnchorLoop(anchors, n - 1, subj), anchors[n], subj)

\* A peer of a "peers" fragment found in a script.  The fragment is what
\* the pattern ({[^{]*"peers"[^}]*}) matched: it ends at the first '}', so
\* a fragment holding an object is cut short and json.loads rejects it.
ScriptPeers == [isDict : BOOLEAN, symbol : Tickers]

FragmentParses(frag) == \A i \in 1..Len(frag) : ~frag[i].isDict

RECURSIVE ScriptLoop(_, _)
ScriptLoop(frag, n) ==
    IF n = 0 THEN <<>>
    ELSE LET rest == ScriptLoop(frag, n - 1)
             p == frag[n]
         IN  IF p.isDict /\ ~IsNonCompany(p.symbol)
             THEN Append(rest, Entry(p.symbol, FALSE, TRUE))
             ELSE rest

ScriptTier(frag) == IF FragmentParses(frag) THEN ScriptLoop(frag, Len(frag)) ELSE <<>>

\* the filter after the page tiers
KeptByFilter(e) ==
    /\ ~(StartsWith(e.Ticker, "^") \/ EndsWith(e.Ticker, Caret3DF)
         \/ Contains(e.Ticker, "=") \/ e.Ticker \in FilterList)
    /\ ~e.boilerplate
    /\ e.scored

RECURSIVE FilterPeers(_)
FilterPeers(list) ==
    IF list = <<>> THEN <<>>
    ELSE LET rest == FilterPeers(SubSeq(list, 1, Len(list) - 1))
             e == list[Len(list)]
         IN  IF KeptByFilter(e) THEN Append(rest, e) ELSE rest

\* A recommended symbol and what yf.Ticker(peer).info gives for it: it
\* raises, is not a dict, or is a dict (with a boilerplate name, with a
\* plain name and no score, with a plain name and a score).
Recommended == [symbol : Tickers, info : {"raise", "nodict", "boilerplate", "named", "scored"}]

\* the recommendation filter without its '=' test
RecommendedOkNoEquals(p) ==
    ~StartsWith(p, "^") /\ ~EndsWith(p, Caret3DF)

\* not p.startswith('^') and not '=' in p and not p.endswith('^3DF')
RecommendedOk(p) ==
    ~StartsWith(p, "^") /\ ~Contains(p, "=") /\ ~EndsWith(p, Caret3DF)

PeerLimit == 10

RECURSIVE FilterRecommended(_)
FilterRecommended(recs) ==
    IF recs = <<>> THEN <<>>
    ELSE LET rest == FilterRecommended(SubSeq(recs, 1, Len(recs) - 1))
             r == recs[Len(recs)]
         IN  IF RecommendedOk(r.symbol) THEN Append(rest, r) ELSE rest

\* the loop over recommended_peers[:10], appending to acc
RECURSIVE RecommendedLoop(_, _, _)
RecommendedLoop(acc, recs, n) ==
    IF n = 0 THEN acc
    ELSE LET rest == RecommendedLoop(acc, recs, n - 1)
             r == recs[n]
         IN  IF r.info \in {"named", "scored"}
             THEN Append(rest, Entry(r.symbol, FALSE, r.info = "scored"))
             ELSE rest

LibraryTier(acc, recs) ==
    LET ok == FilterRecommended(recs)
        limited == SubSeq(ok, 1, Min(Len(ok), PeerLimit))
    IN  RecommendedLoop(acc, limited, Len(limited))

\* the k-th company of a long list: "T" followed by its number
Company(k) == <<"T", ToString(k)>>

\* a peers section that lists n companies, each with its scores
LongAnchors(n) == [i \in 1..n |-> [ticker |-> Company(i), boilerplate |-> FALSE, scored |-> TRUE]]

\* the anchors of a peers section
AnchorLists == SeqsUpTo(Anchors, MaxOffered) \cup {LongAnchors(n) : n \in 1..MaxListed}

\* info['recommendedSymbols'] (or info['similar'])
RecommendedLists ==
    SeqsUpTo(Recommended, MaxOffered)
    \cup {[i \in 1..n |-> [symbol |-> Company(i), info |-> "scored"]] : n \in 1..MaxListed}

PeersInit ==
    /\ subject \in Subjects
    /\ pPhase = "page"
    /\ peer_data = <<>>
    /\ peerSource = {}
    /\ candidates = {}
    /\ subjectInserted = FALSE
    /\ peersBand = <<>>
    /\ relatedBand = <<>>
    /\ StmtIdle
    /\ MainIdle
    /\ EsgIdle
    /\ SummaryIdle
    /\ AuxIdle

\* The page request and the two page tiers, then the filter.  failAt = k
\* is the row lookup of anchor k raising (parent_row runs off the tree);
\* the exception leaves the try with the entries appended so far.
PeersPage ==
    /\ pPhase = "page"
    /\ \E r \in Responses :
        IF r.raised
        THEN /\ pPhase' = "fallback"
             /\ UNCHANGED <<peer_data, peerSource, candidates>>
        ELSE IF r.status_code # 200
        THEN /\ pPhase' = "library"
             /\ UNCHANGED <<peer_data, peerSource, candidates>>
        ELSE \E anchors \in AnchorLists :
             \E failAt \in 0..Len(anchors) :
               IF failAt > 0
               THEN LET before == AnchorLoop(anchors, failAt - 1, subject)
                    IN  /\ ~AnchorSkipped(before, anchors[failAt], subject)
                        /\ peer_data' = before
                        /\ peerSource' = IF before # <<>> THEN {"anchors"} ELSE {}
                        /\ candidates' = {anchors[i].ticker : i \in 1..failAt}
                        /\ pPhase' = "fallback"
               ELSE LET fromAnchors == AnchorLoop(anchors, Len(anchors), subject)
                    IN  \E frag \in (IF fromAnchors = <<>>
                                     THEN SeqsUpTo(ScriptPeers, MaxOffered)
                                     ELSE {<<>>}) :
                          LET fromPage == fromAnchors \o ScriptTier(frag)
                              kept == FilterPeers(fromPage)
                          IN  /\ peer_data' = kept
                              /\ peerSource' =
                                    (IF FilterPeers(fromAnchors) # <<>> THEN {"anchors"} ELSE {})
                                    \cup (IF FilterPeers(ScriptTier(frag)) # <<>> THEN {"script"} ELSE {})
                              /\ candidates' = {anchors[i].ticker : i \in 1..Len(anchors)}
                                               \cup {frag[i].symbol : i \in 1..Len(frag)}
                              /\ pPhase' = IF kept = <<>> THEN "library" ELSE "subject"
    /\ UNCHANGED <<subject, subjectInserted, peersBand, relatedBand>>
    /\ UNCHANGED <<mainVars, stmtVars, esgVars, sumVars, auxVars>>

\* `if not peer_data:` the library tier inside the try; self.ticker.info
\* raising leaves the try for the except branch
PeersLibrary ==
    /\ pPhase = "library"
    /\ \E infoRaises \in BOOLEAN :
        IF infoRaises
        THEN /\ pPhase' = "fallback"
             /\ UNCHANGED <<peer_data, peerSource, candidates>>
        ELSE \E recs \in RecommendedLists :
               LET after == LibraryTier(peer_data, recs)
               IN  /\ peer_data' = after
                   /\ peerSource' = IF after # peer_data THEN peerSource \cup {"library"} ELSE peerSource
                   /\ candidates' = candidates \cup {recs[i].symbol : i \in 1..Len(recs)}
                   /\ pPhase' = "subject"
    /\ UNCHANGED <<subject, subjectInserted, peersBand, relatedBand>>
    /\ UNCHANGED <<mainVars, stmtVars, esgVars, sumVars, auxVars>>

\* the except branch: the same library loop under try/except-pass, appending
\* to whatever peer_data held when the exception was raised
PeersFallback ==
    /\ pPhase = "fallback"
    /\ \E infoRaises \in BOOLEAN :
        IF infoRaises
        THEN UNCHANGED <<peer_data, peerSource, candidates>>
        ELSE \E recs \in RecommendedLists :
               LET after == LibraryTier(peer_data, recs)
               IN  /\ peer_data' = after
                   /\ peerSource' = IF after # peer_data THEN peerSource \cup {"library"} ELSE peerSource
                   /\ candidates' = candidates \cup {recs[i].symbol : i \in 1..Len(recs)}
    /\ pPhase' = "subject"
    /\ UNCHANGED <<subject, subjectInserted, peersBand, relatedBand>>
    /\ UNCHANGED <<mainVars, stmtVars, esgVars, sumVars, auxVars>>

\* "Add current ticker's data as the first row": self.ticker.info may raise,
\* and then the handler only prints
PeersSubject ==
    /\ pPhase = "subject"
    /\ \E infoRaises \in BOOLEAN :
        IF infoRaises
        THEN UNCHANGED <<peer_data, subjectInserted>>
        ELSE /\ peer_data' = <<Entry(subject, FALSE, FALSE)>> \o peer_data
             /\ subjectInserted' = TRUE
    /\ pPhase' = "write"
    /\ UNCHANGED <<subject, peerSource, candidates, peersBand, relatedBand>>
    /\ UNCHANGED <<mainVars, stmtVars, esgVars, sumVars, auxVars>>

\* peer_data[:5]: how many entries go under "Peers"
BandSize == 5

\* peers = peer_data[:5]
PeersBand(list) == SubSeq(list, 1, Min(BandSize, Len(list)))

\* the second band starting at the fifth entry
RelatedBandFromFifth(list) == SubSeq(list, BandSize, Len(list))

\* related_tickers = peer_data[5:]
RelatedBand(list) == SubSeq(list, BandSize + 1, Len(list))

\* lines 2901-3012: the two bands written to the 'Peers' sheet in list
\* order, or the message sheet when the list is empty
PeersWrite ==
    /\ pPhase = "write"
    /\ IF peer_data # <<>>
       THEN /\ peersBand' = PeersBand(peer_data)
            /\ relatedBand' = RelatedBand(peer_data)
       ELSE UNCHANGED <<peersBand, relatedBand>>
    /\ pPhase' = "done"
    /\ UNCHANGED <<subject, peer_data, peerSource, candidates, subjectInserted>>
    /\ UNCHANGED <<mainVars, stmtVars, esgVars, sumVars, auxVars>>

PeersNext == PeersPage \/ PeersLibrary \/ PeersFallback \/ PeersSubject \/ PeersWrite

SpecPeers == PeersInit /\ [][PeersNext]_vars

----------------------------------------------------------------------------
\* Properties of the peer list (checked under SpecPeers)

TickerOk(t) == ~StartsWith(t, "^") /\ ~Contains(t, "=")

\* C8: a non-empty final peer list has the subject ticker at index 0.
C8_SubjectFirst ==
    (pPhase = "done" /\ peer_data # <<>>) => peer_data[1].Ticker = subject

\* C9: no ticker appears twice in the final peer list.
C9_NoDuplicateTickers ==
    pPhase = "done" =>
        \A i, j \in 1..Len(peer_data) :
            i # j => peer_data[i].Ticker # peer_data[j].Ticker

\* C10 as claimed: no entry of the final peer list, the subject's included,
\* has a ticker that starts with '^' or contains '='.
C10_NoIndexOrFutureTicker ==
    pPhase = "done" => \A i \in 1..Len(peer_data) : TickerOk(peer_data[i].Ticker)

\* C10 amended: every entry of the final peer list other than the subject's
\* own entry (put in front unfiltered) has a ticker that neither starts with
\* '^' nor contains '='.
C10_NoIndexOrFuturePeer ==
    pPhase = "done" =>
        \A i \in (IF subjectInserted THEN 2 ELSE 1)..Len(peer_data) :
            TickerOk(peer_data[i].Ticker)

\* C10 witness: an index subject, sources that offered both an index and a
\* future symbol, and a final list that still holds a peer behind the
\* subject.
C10_Witness ==
    /\ pPhase = "done" /\ subjectInserted
    /\ StartsWith(subject, "^")
    /\ Len(peer_data) >= 2
    /\ \E t \in candidates : StartsWith(t, "^")
    /\ \E t \in candidates : Contains(t, "=")


\* C22: the final peer list never holds more than 10 peer tickers (the
\* subject's own entry not counted), whichever tier supplied them.
C22_AtMostTenPeers ==
    pPhase = "done" =>
        Len(peer_data) - (IF subjectInserted THEN 1 ELSE 0) <= 10

\* C25: a non-empty peer list is split without loss or reordering: the
\* 'Peers' band is its first 5 entries (all of them when there are fewer)
\* and the 'Related Tickers' band is the rest, in list order.
C25_BandsPartitionList ==
    (pPhase = "done" /\ peer_data # <<>>) =>
        /\ peersBand \o relatedBand = peer_data
        /\ Len(peersBand) = IF Len(peer_data) < 5 THEN Len(peer_data) ELSE 5

C25_Witness ==
    /\ pPhase = "done"
    /\ subjectInserted
    /\ Len(peer_data) >= 7
    /\ Len(peersBand) = 5
    /\ Len(relatedBand) >= 2
    /\ peersBand[1].Ticker = subject

----------------------------------------------------------------------------
\* fetch_esg_data.  Scores are integers; the cells written to the sheet are
\* in hundredths, so an observed score v is the cell 100 * v and the
\* estimate v * 0.33 is the cell 33 * v.

\* None or one value of S
Opt(S) == {<<>>} \cup {<<v>> : v \in S}

\* the `raw` values a JSON source (instrumentInfo.esgScores of the chart
\* API, QuoteSummaryStore.esgScores of the page) may carry; the code copies
\* them as they come
ScoreRecords ==
    [totalEsg : Opt({0, 24, 120}), environment : Opt({5}), social : Opt({8}),
     governance : Opt({9}), controversyLevel : Opt({2})]

\* the first row of the library's sustainability frame, by column
LibraryRecords == {f \in ScoreRecords : f.controversyLevel = <<>>}

\* the points of a symbolSeries
SeriesPoints == [timestamp : {1, 2}, esgScore : {24, 120}]

SeriesSets == SeqsUpTo(SeriesPoints, MaxPoints)

\* int(time.time()): later than every point of a series
CurrentTimestamp == 3

\* the text of the first div[data-test="esg-score"] that is a number
HtmlTotals == Opt({24})

\* the first integer in the text of the first div matched by
\* div[data-test="environment-score"], div:contains("Environment")
HtmlNumbers == Opt({5, 2023})

\* Python truthiness of a component: None and 0 are false
Truthy(x) == x # <<>> /\ x[1] # 0

\* esg_components[key] = found[key] for every key the source carries
Assign(c, found) == [k \in EsgKeys |-> IF found[k] # <<>> THEN found[k] ELSE c[k]]

\* the library tier's copy: only values that are truthy (and not NaN)
AssignTruthy(c, found) == [k \in EsgKeys |-> IF Truthy(found[k]) THEN found[k] ELSE c[k]]

Yielded(series, total) ==
    (IF series # <<>> THEN {"series"} ELSE {}) \cup (IF total # <<>> THEN {"total"} ELSE {})

SpecEsgInit ==
    /\ ePhase = "chart"
    /\ esg_series = <<>>
    /\ esg_components = NoComponents
    /\ eYield = {}
    /\ esgSheet = NoSheet
    /\ StmtIdle
    /\ PeersIdle
    /\ MainIdle
    /\ SummaryIdle
    /\ AuxIdle

\* First source: the esgChart API (lines 166-194).  A failed request, a
\* response that is not ok or a body without a result leaves everything as
\* it was.
EsgChart ==
    /\ ePhase = "chart"
    /\ \E ok \in BOOLEAN, s \in SeriesSets, f \in ScoreRecords :
        IF ok
        THEN /\ esg_series' = s
             /\ esg_components' = Assign(esg_components, f)
             /\ eYield' = eYield \cup Yielded(s, f.totalEsg)
        ELSE UNCHANGED <<esg_series, esg_components, eYield>>
    /\ ePhase' = "page"
    /\ UNCHANGED <<esgSheet, mainVars, stmtVars, peerVars, sumVars, auxVars>>

\* Second source, only when there is no series yet: the sustainability
\* page (lines 196-287): the embedded JSON, then, while the total is still
\* falsy, the score elements of the HTML.
EsgPage ==
    /\ ePhase = "page"
    /\ IF esg_series # <<>>
       THEN UNCHANGED <<esg_series, esg_components, eYield>>
       ELSE \E ok \in BOOLEAN, s \in SeriesSets, f \in ScoreRecords,
               htmlTotal \in HtmlTotals, htmlEnv \in HtmlNumbers :
            IF ~ok
            THEN UNCHANGED <<esg_series, esg_components, eYield>>
            ELSE LET c1 == Assign(esg_components, f)
                     useHtml == ~Truthy(c1.totalEsg)
                     c2 == IF useHtml
                           THEN [c1 EXCEPT
                                   !.totalEsg = IF htmlTotal # <<>> THEN htmlTotal ELSE @,
                                   !.environment = IF htmlEnv # <<>> THEN htmlEnv ELSE @]
                           ELSE c1
                 IN  /\ esg_series' = s
                     /\ esg_components' = c2
                     /\ eYield' = eYield \cup Yielded(s, f.totalEsg)
                                    \cup (IF useHtml THEN Yielded(<<>>, htmlTotal) ELSE {})
    /\ ePhase' = "library"
    /\ UNCHANGED <<esgSheet, mainVars, stmtVars, peerVars, sumVars, auxVars>>

\* Third source, when there is no series or no component at all: the
\* library's sustainability frame (lines 289-312).
EsgLibrary ==
    /\ ePhase = "library"
    /\ IF esg_series = <<>> \/ \A k \in EsgKeys : esg_components[k] = <<>>
       THEN \E ok \in BOOLEAN, f \in LibraryRecords :
            IF ok
            THEN /\ esg_components' = AssignTruthy(esg_components, f)
                 /\ eYield' = eYield \cup (IF Truthy(f.totalEsg) THEN {"total"} ELSE {})
            ELSE UNCHANGED <<esg_components, eYield>>
       ELSE UNCHANGED <<esg_components, eYield>>
    /\ ePhase' = "build"
    /\ UNCHANGED <<esg_series, esgSheet, mainVars, stmtVars, peerVars, sumVars, auxVars>>

\* an error sheet that also carries an estimated score row
EsgErrorSheetEstimated ==
    [kind |-> "error",
     rows |-> <<[timestamp |-> CurrentTimestamp, esgScore |-> 5000, E |-> 1650, S |-> 1650, G |-> 1650]>>,
     note |-> "estimated", summary |-> NoComponents]

\* the except handler: a one-cell frame {"Error": [...]} and nothing else
EsgErrorSheet == [kind |-> "error", rows |-> <<>>, note |-> "none", summary |-> NoComponents]

\* the note is about estimates as soon as one component is there
AnyComponent(c) == \E k \in {"environment", "social", "governance"} : c[k] # <<>>

\* all(esg_components[k] is not None for k in ["environment", "social", "governance"])
AllComponents(c) == \A k \in {"environment", "social", "governance"} : c[k] # <<>>

\* one cell of the E_Score / S_Score / G_Score column: the component when
\* it is there, else the row's esgScore * 0.33
ComponentCell(c, k, rowScore) == IF c[k] # <<>> THEN 100 * c[k][1] ELSE 33 * rowScore

\* df.sort_values("timestamp", ascending=False) and the five columns
EsgRows(series, c) ==
    LET sorted == SortedDesc(series, [i \in 1..Len(series) |-> series[i].timestamp])
    IN  [i \in 1..Len(sorted) |->
            [timestamp |-> sorted[i].timestamp,
             esgScore |-> 100 * sorted[i].esgScore,
             E |-> ComponentCell(c, "environment", sorted[i].esgScore),
             S |-> ComponentCell(c, "social", sorted[i].esgScore),
             G |-> ComponentCell(c, "governance", sorted[i].esgScore)]]

\* Lines 314-433: the placeholder series or the raise, the frame, the note
\* and the summary section.
EsgBuild ==
    /\ ePhase = "build"
    /\ LET total == esg_components.totalEsg
           series == IF esg_series # <<>> THEN esg_series
                     ELSE IF total # <<>>
                     THEN <<[timestamp |-> CurrentTimestamp, esgScore |-> total[1]]>>
                     ELSE <<>>
       IN  /\ esg_series' = series
           /\ esgSheet' =
                IF series = <<>> THEN EsgErrorSheet
                ELSE [kind |-> "data",
                      rows |-> EsgRows(series, esg_components),
                      note |-> IF AllComponents(esg_components) THEN "current" ELSE "estimated",
                      summary |-> esg_components]
    /\ ePhase' = "done"
    /\ UNCHANGED <<esg_components, eYield, mainVars, stmtVars, peerVars, sumVars, auxVars>>

SpecEsgNext == EsgChart \/ EsgPage \/ EsgLibrary \/ EsgBuild

SpecEsg == SpecEsgInit /\ [][SpecEsgNext]_vars

----------------------------------------------------------------------------
\* Properties of fetch_esg_data (checked under SpecEsg)

\* C18: when no source yielded a historical series or a total score, the
\* 'ESG Scores' sheet holds the error row only and no score row.
C18_NoEsgDataIsUnavailable ==
    (ePhase = "done" /\ eYield = {}) =>
        /\ esgSheet.kind = "error"
        /\ esgSheet.rows = <<>>
        /\ esgSheet.summary = NoComponents

C18_Witness ==
    /\ ePhase = "done"
    /\ eYield = {}
    /\ esg_components.environment # <<>>
    /\ esgSheet.kind = "error"

\* the components that were not obtained
Missing == {k \in {"environment", "social", "governance"} : esg_components[k] = <<>>}

RowCell(row, k) ==
    IF k = "environment" THEN row.E ELSE IF k = "social" THEN row.S ELSE row.G

\* C19: the note of an ESG output is the one for current values exactly
\* when all three component scores were obtained; otherwise it is the one
\* for estimates and every missing component of every row is 0.33 times
\* that row's total score.
C19_NoteMatchesComponents ==
    (ePhase = "done" /\ esgSheet.kind = "data") =>
        /\ (esgSheet.note = "current") <=> (Missing = {})
        /\ Missing # {} =>
            /\ esgSheet.note = "estimated"
            /\ \A i \in 1..Len(esgSheet.rows) : \A k \in Missing :
                 100 * RowCell(esgSheet.rows[i], k) = 33 * esgSheet.rows[i].esgScore

C19_Witness ==
    /\ ePhase = "done"
    /\ esgSheet.kind = "data"
    /\ Len(esgSheet.rows) = 2
    /\ esgSheet.rows[1].esgScore # esgSheet.rows[2].esgScore
    /\ Missing = {"social"}
    /\ esgSheet.note = "estimated"

InRange(cell) == 0 <= cell /\ cell <= 10000

\* C20: every ESG score written to the sheet (total and the three
\* components, in the rows and in the summary) lies between 0 and 100.
C20_ScoresInRange ==
    (ePhase = "done" /\ esgSheet.kind = "data") =>
        /\ \A i \in 1..Len(esgSheet.rows) :
             /\ InRange(esgSheet.rows[i].esgScore)
             /\ InRange(esgSheet.rows[i].E)
             /\ InRange(esgSheet.rows[i].S)
             /\ InRange(esgSheet.rows[i].G)
        /\ \A k \in EsgKeys \ {"controversyLevel"} :
             esgSheet.summary[k] # <<>> => InRange(100 * esgSheet.summary[k][1])


----------------------------------------------------------------------------
\* fetch_company_summary: the beta, P/E and EPS cells and the sector of the
\* profile.  Numbers are in hundredths.  An entry of info or scraped_data
\* is [value, origin]; origin is bookkeeping of the model (the dictionaries
\* of the program hold the bare value): "observed" for a value the provider
\* or a page returned, "estimated" for one computed by a rule of thumb,
\* "random" for one drawn with random.random(), "default" for a constant.

Entry2(v, o) == <<[value |-> v, origin |-> o]>>

\* the four keys whose absence triggers scraping and fallbacks
MissingKeys == {"beta", "trailingPE", "trailingEps", "targetMeanPrice"}

\* the values the provider reports, by key (sector 2 is some sector name,
\* sector 1 is the name "Technology")
Reported ==
    [k \in InfoKeys |->
        IF k = "beta" THEN {120} ELSE IF k = "trailingPE" THEN {3000}
        ELSE IF k = "trailingEps" THEN {600} ELSE IF k = "targetMeanPrice" THEN {11000}
        ELSE {1, 2}]

\* the dictionaries a source may return
Dicts == {d \in [InfoKeys -> {<<>>} \cup UNION {{Entry2(v, "observed") : v \in Reported[k]} : k \in InfoKeys}] :
             \A k \in InfoKeys : d[k] # <<>> => d[k][1].value \in Reported[k]}

\* what _scrape_yahoo_finance and _scrape_yahoo_finance_alt find together
ScrapedDicts == {d \in Dicts : d["sector"] = <<>>}

NoDict == [k \in InfoKeys |-> <<>>]

\* the outcomes of random.random(), in hundredths
Randoms == {0, 50}

\* hist_data['Close'].iloc[-1]
RecentPrice == 10000

\* (year_high - year_low) / last_price, in hundredths
RangePcts == {0, 30, 200}

\* for key, value in d.items(): if key not in info or info[key] is None: info[key] = value
FillMissing(i, d) == [k \in InfoKeys |-> IF i[k] = <<>> THEN d[k] ELSE i[k]]

\* max(0.5, min(2.5, 1.0 + (yearly_range_pct - 0.3) * 2))
EstimatedBeta(pct) ==
    LET e == 100 + 2 * (pct - 30)
    IN  IF e < 50 THEN 50 ELSE IF e > 250 THEN 250 ELSE e

\* _get_fallback_values: fastInfo says whether fast_info gave price and
\* range, histNonEmpty whether the one-year history has rows, tech what the
\* ticker symbol test of line 1411 gives, r the random draw
FallbackValues(fastInfo, pct, histNonEmpty, tech, r) ==
    LET pe == (IF tech THEN 2500 ELSE 1500) + 10 * r
    IN  [k \in InfoKeys |->
            IF k = "beta" /\ fastInfo THEN Entry2(EstimatedBeta(pct), "estimated")
            ELSE IF k = "trailingPE" /\ histNonEmpty THEN Entry2(pe, "random")
            ELSE IF k = "trailingEps" /\ histNonEmpty
                 THEN Entry2((RecentPrice * 100) \div pe, "random")
            ELSE IF k = "targetMeanPrice" /\ histNonEmpty
                 THEN Entry2((RecentPrice * (105 + (10 * r) \div 100)) \div 100, "random")
            ELSE <<>>]

\* right_col[label] = round(v, 2): the bare number, with nothing in the
\* cell or beside it that tells where the number came from
Plain(v, o) == [value |-> v, tag |-> "none", origin |-> o]

SummaryInit ==
    /\ mPhase = "info"
    /\ info = NoDict
    /\ scraped_data = NoDict
    /\ right_col = [l \in MetricLabels |-> Unset]
    /\ profile = [l \in ProfileLabels |-> Unset]
    /\ StmtIdle
    /\ PeersIdle
    /\ MainIdle
    /\ EsgIdle
    /\ AuxIdle

\* info = self.ticker.info (lines 1453-1457)
SummaryInfo ==
    /\ mPhase = "info"
    /\ \E d \in Dicts : info' = d
    /\ mPhase' = "scrape"
    /\ UNCHANGED <<scraped_data, right_col, profile, mainVars, stmtVars, peerVars, esgVars, auxVars>>

\* lines 1472-1506: scraping when one of the four keys is missing, then the
\* fallback values when one is still missing
SummaryScrape ==
    /\ mPhase = "scrape"
    /\ IF \E k \in MissingKeys : info[k] = <<>>
       THEN \E d \in ScrapedDicts, fastInfo \in BOOLEAN, pct \in RangePcts,
               histNonEmpty \in BOOLEAN, tech \in BOOLEAN, r \in Randoms, fbRaises \in BOOLEAN :
            LET i1 == FillMissing(info, d)
                fb == IF fbRaises THEN NoDict
                      ELSE FallbackValues(fastInfo, pct, histNonEmpty, tech, r)
            IN  /\ scraped_data' = d
                /\ info' = IF \E k \in MissingKeys : i1[k] = <<>>
                           THEN FillMissing(i1, fb) ELSE i1
       ELSE UNCHANGED <<info, scraped_data>>
    /\ mPhase' = "metrics"
    /\ UNCHANGED <<right_col, profile, mainVars, stmtVars, peerVars, esgVars, auxVars>>

\* one of the beta / P/E cells (lines 1868-1909): the info value, else the
\* scraped one, else base + random.random() * spread
MetricCell(key, base, spread, r) ==
    IF info[key] # <<>> THEN Plain(info[key][1].value, info[key][1].origin)
    ELSE IF scraped_data[key] # <<>>
    THEN Plain(scraped_data[key][1].value, scraped_data[key][1].origin)
    ELSE Plain(base + (spread * r) \div 100, "random")

\* the EPS cell (lines 1911-1943)
EpsCell(peCell, histNonEmpty, r) ==
    IF info["trailingEps"] # <<>>
    THEN Plain(info["trailingEps"][1].value, info["trailingEps"][1].origin)
    ELSE IF scraped_data["trailingEps"] # <<>>
    THEN Plain(scraped_data["trailingEps"][1].value, scraped_data["trailingEps"][1].origin)
    ELSE IF histNonEmpty
    THEN Plain((RecentPrice * 100) \div peCell.value, "estimated")
    ELSE Plain(500 + (300 * r) \div 100, "random")

SummaryMetrics ==
    /\ mPhase = "metrics"
    /\ \E r1 \in Randoms, r2 \in Randoms, r3 \in Randoms, histNonEmpty \in BOOLEAN :
        LET beta == MetricCell("beta", 100, 50, r1)
            pe == MetricCell("trailingPE", 2000, 1000, r2)
        IN  right_col' = [l \in MetricLabels |->
                            IF l = "Beta (5Y Monthly)" THEN beta
                            ELSE IF l = "PE Ratio (TTM)" THEN pe
                            ELSE EpsCell(pe, histNonEmpty, r3)]
    /\ mPhase' = "profile"
    /\ UNCHANGED <<info, scraped_data, profile, mainVars, stmtVars, peerVars, esgVars, auxVars>>

\* the sector (lines 2145-2198): info, else the profile page, else "Technology"
SummaryProfile ==
    /\ mPhase = "profile"
    /\ \E page \in {<<>>} \cup {Entry2(v, "observed") : v \in Reported["sector"]} :
        LET sector == IF info["sector"] # <<>> THEN info["sector"] ELSE page
        IN  profile' = [l \in ProfileLabels |->
                          IF sector # <<>> THEN Plain(sector[1].value, sector[1].origin)
                          ELSE Plain(1, "default")]
    /\ mPhase' = "done"
    /\ UNCHANGED <<info, scraped_data, right_col, mainVars, stmtVars, peerVars, esgVars, auxVars>>

SummaryNext == SummaryInfo \/ SummaryScrape \/ SummaryMetrics \/ SummaryProfile

SpecSummary == SummaryInit /\ [][SummaryNext]_vars

----------------------------------------------------------------------------
\* Properties of fetch_company_summary (checked under SpecSummary)

Guessed == {"estimated", "random", "default"}

\* C17: every value of the Company Summary that is an estimate, a random
\* placeholder or a default carries a tag that tells it from an observed
\* value.
C17_GuessedValuesTagged ==
    mPhase = "done" =>
        /\ \A l \in MetricLabels : right_col[l].origin \in Guessed => right_col[l].tag # "none"
        /\ \A l \in ProfileLabels : profile[l].origin \in Guessed => profile[l].tag # "none"


----------------------------------------------------------------------------
\* fetch_historical_data

\* the columns of a price history besides the two the code drops
PriceColumns == {"Open", "High", "Low", "Close", "Volume"}

ColumnsToDrop == {"Dividends", "Stock Splits"}

\* what self.ticker.history(start=..., end=...) may return: the price
\* columns with or without the two others, and an index of instants
PriceHistories ==
    [columns : {PriceColumns \cup extra : extra \in SUBSET ColumnsToDrop},
     index : SeqsUpTo(Stamps, MaxDays)]

HistInit ==
    /\ hPhase = "fetch"
    /\ hist_data = [columns |-> {}, index |-> <<>>]
    /\ histSheet = [kind |-> "none", columns |-> {}, rows |-> <<>>]
    /\ MagnitudeIdle
    /\ StatsIdle
    /\ StmtIdle
    /\ PeersIdle
    /\ MainIdle
    /\ EsgIdle
    /\ SummaryIdle

\* the except handler: the one-cell error frame
HistErrorSheet == [kind |-> "error", columns |-> {}, rows |-> <<>>]

\* lines 84-87: the call of the library; when it raises the handler writes
\* the error sheet
HistFetch ==
    /\ hPhase = "fetch"
    /\ \E raises \in BOOLEAN, h \in PriceHistories :
        IF raises
        THEN /\ histSheet' = HistErrorSheet
             /\ hPhase' = "done"
             /\ UNCHANGED hist_data
        ELSE /\ hist_data' = h
             /\ hPhase' = "write"
             /\ UNCHANGED histSheet
    /\ UNCHANGED <<mainVars, stmtVars, peerVars, esgVars, sumVars, statVars, fmtVars>>

\* lines 97-105: the index formatted as dd-mm-yyyy, the rows sorted by the
\* original instants in descending order
HistRows(index) ==
    LET sorted == SortedDesc(index, index)
    IN  [i \in 1..Len(sorted) |-> [date |-> FormatTimestamp(sorted[i]), instant |-> sorted[i]]]

\* lines 89-108: the two columns dropped, the rows, the sheet
HistWrite ==
    /\ hPhase = "write"
    /\ histSheet' = [kind |-> "data",
                     columns |-> hist_data.columns \ ColumnsToDrop,
                     rows |-> HistRows(hist_data.index)]
    /\ hPhase' = "done"
    /\ UNCHANGED <<hist_data, mainVars, stmtVars, peerVars, esgVars, sumVars, statVars, fmtVars>>

HistNext == HistFetch \/ HistWrite

SpecHist == HistInit /\ [][HistNext]_vars

----------------------------------------------------------------------------
\* Properties of fetch_historical_data (checked under SpecHist)

\* the calendar day of a formatted date, as yyyymmdd
DayOf(date) == date[3] * 10000 + date[2] * 100 + date[1]

\* C21: the rows of the Historical Data sheet are in strictly decreasing
\* order of their date, so no date appears twice.
C21_DatesStrictlyDecreasing ==
    (hPhase = "done" /\ histSheet.kind = "data") =>
        \A i, j \in 1..Len(histSheet.rows) :
            i < j => DayOf(histSheet.rows[i].date) > DayOf(histSheet.rows[j].date)


----------------------------------------------------------------------------
\* The magnitude formatters: fetch_statistics (large-number keys),
\* _process_yfinance_income_data (statement cells of the library tier) and
\* fetch_company_summary (market cap)

\* A number is sign * mant * 10^exp, so that 10^12 stays inside the integers
\* of the model.
Mantissas == {1, 25, 999}

Exponents == {0, 3, 6, 8, 9, 11, 12}

Magnitudes ==
    {[sign |-> 1, mant |-> 0, exp |-> 0]}
        \cup [sign : {1, -1}, mant : Mantissas, exp : Exponents]

\* mant * 10^exp >= 10^k, for a mantissa below 1000
AtLeast(v, k) ==
    /\ v.mant > 0
    /\ \/ v.exp >= k
       \/ k - v.exp <= 3 /\ v.mant >= 10 ^ (k - v.exp)

\* abs(value)
Abs(v) == [v EXCEPT !.sign = 1]

Positive(v) == v.sign = 1 /\ v.mant > 0

\* lines 962-969: billions, millions, otherwise the plain number
StatsSuffix(v) ==
    IF AtLeast(Abs(v), 9) THEN "B"
    ELSE IF AtLeast(Abs(v), 6) THEN "M"
    ELSE ""

\* lines 857-866: billions, millions, thousands, otherwise the plain number
LibrarySuffix(v) ==
    IF AtLeast(Abs(v), 9) THEN "B"
    ELSE IF AtLeast(Abs(v), 6) THEN "M"
    ELSE IF AtLeast(Abs(v), 3) THEN "K"
    ELSE ""

\* lines 1815-1823: only a market cap above zero is formatted here, without
\* abs(); a value that is not above zero goes to the estimate branch
SummarySuffix(v) ==
    IF ~Positive(v) THEN "skipped"
    ELSE IF AtLeast(v, 12) THEN "T"
    ELSE IF AtLeast(v, 9) THEN "B"
    ELSE IF AtLeast(v, 6) THEN "M"
    ELSE ""

MagnitudeInit ==
    /\ magnitude \in Magnitudes
    /\ suffixes = [f \in Formatters |-> "unset"]
    /\ HistIdle
    /\ StatsIdle
    /\ StmtIdle
    /\ PeersIdle
    /\ MainIdle
    /\ EsgIdle
    /\ SummaryIdle

FormatStatistics ==
    /\ suffixes["statistics"] = "unset"
    /\ suffixes' = [suffixes EXCEPT !["statistics"] = StatsSuffix(magnitude)]
    /\ UNCHANGED <<magnitude, mainVars, stmtVars, peerVars, esgVars, sumVars, histVars, statVars>>

FormatLibraryCell ==
    /\ suffixes["library"] = "unset"
    /\ suffixes' = [suffixes EXCEPT !["library"] = LibrarySuffix(magnitude)]
    /\ UNCHANGED <<magnitude, mainVars, stmtVars, peerVars, esgVars, sumVars, histVars, statVars>>

FormatMarketCap ==
    /\ suffixes["summary"] = "unset"
    /\ suffixes' = [suffixes EXCEPT !["summary"] = SummarySuffix(magnitude)]
    /\ UNCHANGED <<magnitude, mainVars, stmtVars, peerVars, esgVars, sumVars, histVars, statVars>>

MagnitudeNext == FormatStatistics \/ FormatLibraryCell \/ FormatMarketCap

SpecMagnitude == MagnitudeInit /\ [][MagnitudeNext]_vars

----------------------------------------------------------------------------
\* Properties of the magnitude formatters (checked under SpecMagnitude)

\* the thresholds the three formatters are said to share
SharedSuffix(v) ==
    IF AtLeast(Abs(v), 12) THEN "T"
    ELSE IF AtLeast(Abs(v), 9) THEN "B"
    ELSE IF AtLeast(Abs(v), 6) THEN "M"
    ELSE ""

\* C23: every magnitude formatter picks the suffix by the same thresholds:
\* at least 10^12 gives T, else at least 10^9 gives B, else at least 10^6
\* gives M, else no suffix.
C23_SameThresholdsEverywhere ==
    \A f \in Formatters :
        suffixes[f] \notin {"unset", "skipped"} => suffixes[f] = SharedSuffix(magnitude)


----------------------------------------------------------------------------
\* fetch_statistics: the merge of the two sources and the formatting

\* the percent keys of line 970 that the model carries
PercentKeys == {"dividendYield", "payoutRatio"}

\* the keys _scrape_yahoo_finance_alt can fill (stat_mappings)
ScrapedKeys == {"marketCap", "dividendYield", "trailingPE"}

\* numbers in hundredths: -0.50, 0.07, 0.50, 1.00, 5.00 for the percent
\* keys, 25.00 and 28.50 for the others
StatValues(k) == IF k \in PercentKeys THEN {0 - 50, 7, 50, 100, 500} ELSE {2500, 2850}

\* self.ticker.info: a key is absent, None or a number
InfoDicts ==
    {d \in [StatKeys -> {AbsentStat, NullStat} \cup {NumStat(v) : v \in {0 - 50, 7, 50, 100, 500, 2500, 2850}}] :
        \A k \in StatKeys : d[k].kind = "num" => d[k].value \in StatValues(k)}

\* _scrape_yahoo_finance_alt: only numbers are stored, only under its keys
StatScrapedDicts ==
    {d \in [StatKeys -> {AbsentStat} \cup {NumStat(v) : v \in {7, 50, 500, 2500, 2850}}] :
        \A k \in StatKeys :
            d[k].kind = "num" => k \in ScrapedKeys /\ d[k].value \in StatValues(k)}

StatsInit ==
    /\ stPhase = "fetch"
    /\ statInfo = [k \in StatKeys |-> AbsentStat]
    /\ statScraped = [k \in StatKeys |-> AbsentStat]
    /\ formatted_data = [k \in StatKeys |-> UnsetStat]
    /\ HistIdle
    /\ MagnitudeIdle
    /\ StmtIdle
    /\ PeersIdle
    /\ MainIdle
    /\ EsgIdle
    /\ SummaryIdle

\* lines 882-888: the two sources; an exception of the info accessor goes
\* to the handler, which writes the error sheet
StatsFetch ==
    /\ stPhase = "fetch"
    /\ \E raises \in BOOLEAN, i \in InfoDicts, s \in StatScrapedDicts :
        IF raises
        THEN /\ stPhase' = "error"
             /\ UNCHANGED <<statInfo, statScraped>>
        ELSE /\ stPhase' = "format"
             /\ statInfo' = i
             /\ statScraped' = s
    /\ UNCHANGED <<formatted_data, mainVars, stmtVars, peerVars, esgVars, sumVars, histVars, fmtVars>>

\* line 891: {**scraped_data, **info}: every key of info, None included,
\* overrides the scraped entry
MergedEntry(scraped, inf, k) ==
    IF inf[k].kind # "absent"
    THEN [entry |-> inf[k], origin |-> "info"]
    ELSE [entry |-> scraped[k], origin |-> "scraped"]

AbsInt(v) == IF v < 0 THEN 0 - v ELSE v

\* line 974 without the exception for payoutRatio
ScalesBelowOneAlways(k, v) == AbsInt(v) < 100

\* line 974: abs(value) < 1 and key != 'payoutRatio'
ScalesBelowOne(k, v) == AbsInt(v) < 100 /\ k # "payoutRatio"

\* lines 957-990: the row of one key
FormatStat(k, m) ==
    IF m.entry.kind # "num"
    THEN [form |-> "N/A", shown |-> 0, raw |-> 0, origin |-> "none"]
    ELSE LET value == m.entry.value
         IN  IF k = "marketCap"
             THEN [form |-> "money", shown |-> value, raw |-> value, origin |-> m.origin]
             ELSE IF k \in PercentKeys
             THEN [form |-> "percent",
                   shown |-> IF ScalesBelowOne(k, value) THEN value * 100 ELSE value,
                   raw |-> value, origin |-> m.origin]
             ELSE [form |-> "ratio", shown |-> value, raw |-> value, origin |-> m.origin]

\* lines 891-992: the merge, then one row per key
StatsFormat ==
    /\ stPhase = "format"
    /\ formatted_data' =
           [k \in StatKeys |-> FormatStat(k, MergedEntry(statScraped, statInfo, k))]
    /\ stPhase' = "done"
    /\ UNCHANGED <<statInfo, statScraped, mainVars, stmtVars, peerVars, esgVars, sumVars, histVars, fmtVars>>

StatsNext == StatsFetch \/ StatsFormat

SpecStats == StatsInit /\ [][StatsNext]_vars

----------------------------------------------------------------------------
\* Properties of fetch_statistics (checked under SpecStats)

\* C24: a percent field below 1 in absolute value that is not payoutRatio
\* is shown multiplied by 100; payoutRatio and values of 1 or more are shown
\* unscaled.
C24_PercentScaling ==
    stPhase = "done" =>
        \A k \in PercentKeys :
            formatted_data[k].form = "percent" =>
                LET v == formatted_data[k].raw
                IN  IF k = "payoutRatio" \/ v >= 100 \/ v <= 0 - 100
                    THEN formatted_data[k].shown = v
                    ELSE formatted_data[k].shown = 100 * v

\* a yield of 0.07 shown as 7.00%, next to a payout ratio of 0.50 shown
\* as 0.50% and, in another run, a yield of 5 shown as 5.00%
C24_Witness ==
    /\ stPhase = "done"
    /\ formatted_data["dividendYield"].form = "percent"
    /\ formatted_data["dividendYield"].raw = 7
    /\ formatted_data["dividendYield"].shown = 700
    /\ formatted_data["payoutRatio"].form = "percent"
    /\ formatted_data["payoutRatio"].raw = 50
    /\ formatted_data["payoutRatio"].shown = 50

\* C28: the value shown for a key comes from info when info holds a number
\* for it, otherwise from the scraped page when that holds one, and is N/A
\* only when neither does.
C28_InfoThenScrapedThenNA ==
    stPhase = "done" =>
        \A k \in StatKeys :
            IF statInfo[k].kind = "num"
            THEN /\ formatted_data[k].origin = "info"
                 /\ formatted_data[k].raw = statInfo[k].value
            ELSE IF statScraped[k].kind = "num"
            THEN /\ formatted_data[k].origin = "scraped"
                 /\ formatted_data[k].raw = statScraped[k].value
            ELSE formatted_data[k].form = "N/A"


----------------------------------------------------------------------------
\* Properties of the tables built from provider JSON (checked under SpecStmt)

PeriodDate(p) ==
    IF p.endDate.kind = "int" THEN FormatTimestamp(p.endDate.raw) ELSE UnknownDate

\* C27: in a table built from provider JSON the date in header column i is
\* the formatted end date of the period whose values fill column i.
C27_CellsUnderOwnDate ==
    (outcome = "data" /\ tier = "json") =>
        LET dates == written[1].cells
            order == PeriodOrder(history)
        IN  \A i \in 1..Len(dates) :
                /\ i <= Len(history)
                /\ history[order[i]].endDate.kind # "absent"
                /\ dates[i] = PeriodDate(history[order[i]])


----------------------------------------------------------------------------
\* Frame property of the source chain of fetch_esg_data (checked under
\* SpecEsg)

ScoreKeys == {"totalEsg", "environment", "social", "governance"}

\* C29: once a component score has been obtained from a source, no later
\* source of the chain replaces it.
C29_ObtainedComponentKept ==
    [][\A k \in ScoreKeys :
          esg_components[k] # <<>> => esg_components'[k] = esg_components[k]]_vars


----------------------------------------------------------------------------
\* Termination of fetch_all_data

\* the steps of the coroutine fetch_all_data on the event loop
MainStep ==
    \/ CheckAndOpen
    \/ FetchHistoricalData
    \/ FetchEsgData
    \/ FetchCompanySummary
    \/ FetchStatistics
    \/ Submit
    \/ AwaitNext
    \/ CloseAndReturn

\* the steps of the pool on behalf of task t
TaskStep(t) ==
    \/ TaskStart(t)
    \/ TaskAcquire(t)
    \/ TaskBeginWrite(t)
    \/ TaskEndWrite(t)

\* Every call returns or times out, the event loop keeps running the
\* coroutine and the operating system keeps scheduling the worker threads:
\* a step that stays possible is taken.
SpecLive ==
    /\ MainInit
    /\ [][Next]_vars
    /\ WF_vars(MainStep)
    /\ \A t \in Tasks : WF_vars(TaskStep(t))

\* C30: every run of fetch_all_data comes to rest: fetch_all_data has
\* returned the filename or None, and no task handed to the pool is left
\* queued or running, so each was started and completed.
C30_RunTerminates ==
    <>[](/\ pc = "returned"
         /\ ret \in {"filename", "None"}
         /\ \A t \in Tasks : tstate[t] \notin {"queued", "running"})

\* C30 witness: all three tasks were started and completed by the pool,
\* closing the workbook failed and fetch_all_data returned None
C30_Witness ==
    /\ pc = "returned" /\ ret = "None" /\ abortCause = "close"
    /\ submitted = 3
    /\ \A t \in Tasks : tstate[t] = "done"

====

